---- MODULE Spec2Model ----
(***************************************************************************)
(* Model of the trip-planner backend: the itinerary route ordering, the    *)
(* model-response validator and budget adjustment, the service operations  *)
(* with their error handlers and retry wrappers, the chat conversation     *)
(* history, the HTTP route table, the date validator and the booking       *)
(* service.                                                                *)
(***************************************************************************)
EXTENDS Integers, Sequences, FiniteSets, TLC

VARIABLES
    \* ItineraryService._get_optimal_route
    activities,      \* the list handed to _get_optimal_route
    gmaps,           \* MapsService.gmaps: "unset" (no API key), "ok", "fail"
    optimal_route,   \* the list _get_optimal_route returned
    route_pc         \* "idle" before the call, "done" after it

route_vars == <<activities, gmaps, optimal_route, route_pc>>

VARIABLES
    \* AIService._parse_and_validate_response
    response_text,   \* the text the model answered with
    trip_request,    \* the request the itinerary is generated for
    parse_result     \* outcome of the call: nothing yet, a return or a raise

parse_vars == <<response_text, trip_request, parse_result>>

VARIABLES
    \* One call of a service operation, with the retry wrapper around it
    env,              \* how the external services answer during the attempt
    call,             \* the operation called, its argument, attempts made
    op_result,        \* what the call gave its caller: a return or a raise
    itinerary_cache,  \* Redis entry under the request's itinerary cache key
    place_cache       \* Redis entry under the place's cache key

ops_vars == <<env, call, op_result, itinerary_cache, place_cache>>

VARIABLES
    \* AIService.chat_assistance: concurrent calls on one AIService
    conversation_history,  \* AIService.conversation_history, by conversation id
    redis_client,          \* TRUE when settings.use_redis_cache built a client
    redis_store,           \* Redis value under conversation:<user>:<conversation>
    redis_at_start,        \* what Redis held when the service was constructed
    chat,                  \* each coroutine running chat_assistance
    calls,                 \* number of chat_assistance calls started so far
    senders                \* the user_id each message was sent with

chat_vars == <<conversation_history, redis_client, redis_store, redis_at_start,
               chat, calls, senders>>

VARIABLES
    \* The FastAPI application answering one HTTP request
    settings,        \* app.config.settings as read from the environment
    warehouse,       \* whether BigQuery answers during the request
    http_request,    \* the request being handled
    http_response    \* the response sent for it

http_vars == <<settings, warehouse, http_request, http_response>>

VARIABLES
    \* A client session: the exchanges the app has completed so far
    earlier          \* set of [request, response] already answered

session_vars == <<earlier>>

VARIABLES
    \* validators.validate_dates
    start_date,      \* req.start_date, as a day number
    end_date,        \* req.end_date, as a day number
    dates_result     \* outcome of the call: nothing yet, a return or a raise

dates_vars == <<start_date, end_date, dates_result>>

VARIABLES
    \* The exchanges _update_conversation_history was called with
    appended         \* by conversation id, every entry ever appended, in order

history_vars == <<appended>>

VARIABLES
    \* BookingService: calls made one after the other on one service
    database,        \* the bookings _save_booking / _update_booking stored
    emt_made,        \* EMT bookings confirmed so far: [booking, item]
    emt_cancelled,   \* those of them _cancel_emt_booking cancelled
    returned,        \* booking ids of the bookings create_booking returned
    uuids,           \* number of booking ids generated so far
    booking_op,      \* the last call: operation, booking id, items, EMT answer
    booking_result   \* what that call gave its caller: a return or a raise

booking_vars == <<database, emt_made, emt_cancelled, returned, uuids, booking_op,
                  booking_result>>

VARIABLES
    \* BookingService._calculate_refund
    refund_booking,  \* the booking cancelled: its items' dates, its total_amount
    refund_result    \* outcome of the call: nothing yet, a return or a raise

refund_vars == <<refund_booking, refund_result>>

vars == <<route_vars, parse_vars, ops_vars, chat_vars, http_vars, session_vars,
          dates_vars, history_vars, booking_vars, refund_vars>>

\* What an action of one part of the program leaves alone.
not_route_vars == <<parse_vars, ops_vars, chat_vars, http_vars, session_vars,
                    dates_vars, history_vars,
                    booking_vars, refund_vars>>
not_parse_vars == <<route_vars, ops_vars, chat_vars, http_vars, session_vars,
                    dates_vars, history_vars,
                    booking_vars, refund_vars>>
not_ops_vars == <<activities, optimal_route, route_pc, parse_result, chat_vars,
                  http_vars, session_vars, dates_vars, history_vars,
                    booking_vars, refund_vars>>
not_chat_vars == <<route_vars, parse_vars, ops_vars, http_vars, session_vars,
                   dates_vars, history_vars,
                    booking_vars, refund_vars>>
not_http_vars == <<route_vars, parse_vars, ops_vars, chat_vars, session_vars,
                   dates_vars, history_vars,
                    booking_vars, refund_vars>>
not_session_vars == <<route_vars, parse_vars, ops_vars, chat_vars, dates_vars,
                      history_vars,
                    booking_vars, refund_vars>>
not_dates_vars == <<route_vars, parse_vars, ops_vars, chat_vars, http_vars,
                    session_vars, history_vars,
                    booking_vars, refund_vars>>
not_history_vars == <<route_vars, parse_vars, ops_vars, redis_client, redis_store,
                      redis_at_start, chat, calls, senders, http_vars, session_vars,
                      dates_vars, booking_vars, refund_vars>>
not_booking_vars == <<route_vars, parse_vars, ops_vars, chat_vars, http_vars,
                      session_vars, dates_vars, history_vars, refund_vars>>
not_refund_vars == <<route_vars, parse_vars, ops_vars, chat_vars, http_vars,
                     session_vars, dates_vars, history_vars, booking_vars>>

----------------------------------------------------------------------------
(* Bounds *)

MaxActivities == 3
MaxDays == 1
MaxDayActivities == 1
MaxCalls == 3
MaxDate == 10
MaxExchanges == 21
MaxItems == 2
MaxBookings == 2
MaxHours == 50
MaxAmount == 3

----------------------------------------------------------------------------
(* Small helpers over sequences *)

RECURSIVE SeqsUpTo(_, _)
SeqsUpTo(S, n) ==
    IF n = 0 THEN {<<>>}
    ELSE LET shorter == SeqsUpTo(S, n - 1)
         IN  shorter \cup {Append(s, x) : s \in {t \in shorter : Len(t) = n - 1}, x \in S}

RemoveAt(s, i) == [k \in 1..(Len(s) - 1) |-> IF k < i THEN s[k] ELSE s[k + 1]]

Abs(x) == IF x < 0 THEN -x ELSE x

----------------------------------------------------------------------------
(* ItineraryService: route ordering                                        *)

Addresses == {"X", "Y", "Z"}

\* Activity.location is a dict: empty, without an 'address' key, or with one.
Locations == {"empty", "noaddress"} \cup Addresses

Activity == [name : {"a", "b"}, location : Locations]

\* activity.location and 'address' in activity.location
HasAddress(activity) == activity.location \in Addresses

\* Positions of the addresses, from which the maps API answers distances.
Position == [a \in Addresses |-> CASE a = "X" -> 0 [] a = "Y" -> 9 [] a = "Z" -> 1]

\* MapsService._get_mock_distance_matrix: every pair is 5000 m apart.
_get_mock_distance_matrix(origins, destinations) ==
    [status |-> "OK",
     results |-> [p \in {<<o, d>> : o \in {origins[i] : i \in 1..Len(origins)},
                                     d \in {destinations[i] : i \in 1..Len(destinations)}}
                    |-> 5000]]

EmptyMatrix == [status |-> "EMPTY", results |-> <<>>]

\* MapsService.calculate_distance_matrix: mock data without a client, the
\* API's distances with one, and {} when the API call raises.
calculate_distance_matrix(origins, destinations) ==
    IF gmaps = "unset" THEN _get_mock_distance_matrix(origins, destinations)
    ELSE IF gmaps = "fail" THEN EmptyMatrix
    ELSE [status |-> "OK",
          results |-> [p \in {<<o, d>> : o \in {origins[i] : i \in 1..Len(origins)},
                                          d \in {destinations[i] : i \in 1..Len(destinations)}}
                         |-> 1000 * Abs(Position[p[1]] - Position[p[2]])]]

\* A distance read from the matrix (what a non-stub _get_distance would do).
_get_distance_from_matrix(activity1, activity2, matrix) ==
    LET p == <<activity1.location, activity2.location>>
    IN  IF matrix.status = "OK" /\ p \in DOMAIN matrix.results
        THEN matrix.results[p] ELSE 1

\* ItineraryService._get_distance: "return 1.0  # Default distance"
_get_distance(activity1, activity2, matrix) == 1

\* Python's min(remaining, key=...): the index of the first element whose
\* key is minimal.
MinIndex(remaining, current, matrix) ==
    CHOOSE i \in 1..Len(remaining) :
        /\ \A j \in 1..Len(remaining) :
              _get_distance(current, remaining[i], matrix)
                  <= _get_distance(current, remaining[j], matrix)
        /\ \A j \in 1..(i - 1) :
              _get_distance(current, remaining[j], matrix)
                  > _get_distance(current, remaining[i], matrix)

\* list.remove(x): drops the first element equal to x.
ListRemove(s, x) == RemoveAt(s, CHOOSE i \in 1..Len(s) :
                                   s[i] = x /\ \A j \in 1..(i - 1) : s[j] # x)

\* The while-loop of _get_optimal_route.
RECURSIVE NearestNeighbour(_, _, _)
NearestNeighbour(optimized, remaining, matrix) ==
    IF remaining = <<>> THEN optimized
    ELSE LET current == optimized[Len(optimized)]
             nearest == remaining[MinIndex(remaining, current, matrix)]
         IN  NearestNeighbour(Append(optimized, nearest),
                              ListRemove(remaining, nearest), matrix)

\* ItineraryService._get_optimal_route
_get_optimal_route(acts) ==
    IF Len(acts) <= 2 THEN acts
    ELSE LET withAddress == SelectSeq(acts, HasAddress)
             locations == [i \in 1..Len(withAddress) |-> withAddress[i].location]
         IN  IF Len(locations) < Len(acts) THEN acts
             ELSE NearestNeighbour(<<acts[1]>>, SubSeq(acts, 2, Len(acts)),
                                   calculate_distance_matrix(locations, locations))

RouteIdle ==
    /\ activities = <<>>
    /\ gmaps = "unset"
    /\ optimal_route = <<>>
    /\ route_pc = "idle"

RouteInit ==
    /\ activities \in SeqsUpTo(Activity, MaxActivities)
    /\ gmaps \in {"unset", "ok", "fail"}
    /\ optimal_route = <<>>
    /\ route_pc = "idle"

GetOptimalRoute ==
    /\ route_pc = "idle"
    /\ optimal_route' = _get_optimal_route(activities)
    /\ route_pc' = "done"
    /\ UNCHANGED <<activities, gmaps>>
    /\ UNCHANGED not_route_vars

RouteNext == GetOptimalRoute

----------------------------------------------------------------------------
(* AIService: response parsing, validation and budget adjustment           *)

\* A JSON value as the validator sees it: a number (kept as the exact
\* fraction n/d, the rounding of Python floats is not modelled), a string,
\* null, or a key that is absent from its dict.
Num(k) == [t |-> "num", n |-> k, d |-> 1]
Frac(k, m) == [t |-> "num", n |-> k, d |-> m]
Str == [t |-> "str", n |-> 0, d |-> 1]
Null == [t |-> "null", n |-> 0, d |-> 1]
Absent == [t |-> "absent", n |-> 0, d |-> 1]

IsNum(v) == v.t = "num"
Present(v) == v.t # "absent"

\* Comparison of two numbers with positive denominators.
NumEq(a, b) == a.n * b.d = b.n * a.d
NumGt(a, b) == a.n * b.d > b.n * a.d

\* x * (budget / current_cost)
Scale(x, budget, current_cost) ==
    Frac(x.n * budget.n * current_cost.d, x.d * budget.d * current_cost.n)

\* An activity of a day, with the cost keys of the prompt's template.
SampleActivities ==
    {[cost_per_person |-> Num(2), total_cost |-> Num(4)],
     [cost_per_person |-> Null, total_cost |-> Num(4)],
     [cost_per_person |-> Absent, total_cost |-> Absent]}

\* The other costs of a day in the template: meals[].cost_estimate,
\* accommodation.total_cost and transport[].cost.
SampleDays ==
    [day_total_cost : {Absent, Num(6), Str},
     activities : SeqsUpTo(SampleActivities, MaxDayActivities),
     meal_cost : {Absent, Num(2)},
     accommodation_cost : {Absent, Num(2)},
     transport_cost : {Absent, Num(2)}]

RequiredFields == {"daily_itineraries", "cost_breakdown", "total_estimated_cost"}

\* AIService._get_default_value
_get_default_value(field) ==
    CASE field = "daily_itineraries" -> <<>>
      [] field = "cost_breakdown" ->
            [c \in {"accommodation", "meals", "activities", "transport",
                    "miscellaneous"} |-> Num(0)]
      [] field = "total_estimated_cost" -> Num(0)

\* An itinerary dict: keys is the set of required top-level keys it has; a
\* field whose key is missing holds a placeholder that is never read.
SampleBreakdowns ==
    {[c \in {"accommodation", "meals"} |-> Num(3)],
     [c \in {"accommodation", "meals"} |-> IF c = "meals" THEN Str ELSE Num(3)]}

SampleItineraries ==
    {it \in [keys : SUBSET RequiredFields,
             total_estimated_cost : {Absent, Num(2), Num(6), Str},
             cost_breakdown : SampleBreakdowns \cup {<<>>},
             daily_itineraries : SeqsUpTo(SampleDays, MaxDays),
             budget_adjusted : {FALSE},
             fallback_mode : {FALSE}] :
        /\ ("total_estimated_cost" \in it.keys) = Present(it.total_estimated_cost)
        /\ ("cost_breakdown" \in it.keys) = (it.cost_breakdown # <<>>)
        /\ ("daily_itineraries" \notin it.keys) => it.daily_itineraries = <<>>}

EmptyItinerary ==
    [keys |-> {}, total_estimated_cost |-> Absent, cost_breakdown |-> <<>>,
     daily_itineraries |-> <<>>, budget_adjusted |-> FALSE, fallback_mode |-> FALSE]

Return(it) == [kind |-> "return", exc |-> "", itinerary |-> it]
Raise(e) == [kind |-> "raise", exc |-> e, itinerary |-> EmptyItinerary]
NoResult == [kind |-> "none", exc |-> "", itinerary |-> EmptyItinerary]

\* _adjust_for_budget on one activity: `x *= adjustment_ratio` raises
\* TypeError on a value that is not a number, after the earlier keys of the
\* activity were already rewritten in place.
AdjustActivity(a, budget, cost) ==
    IF Present(a.cost_per_person) /\ ~IsNum(a.cost_per_person)
    THEN [val |-> a, err |-> TRUE]
    ELSE LET a1 == IF Present(a.cost_per_person)
                   THEN [a EXCEPT !.cost_per_person = Scale(@, budget, cost)]
                   ELSE a
         IN  IF Present(a1.total_cost) /\ ~IsNum(a1.total_cost)
             THEN [val |-> a1, err |-> TRUE]
             ELSE [val |-> IF Present(a1.total_cost)
                           THEN [a1 EXCEPT !.total_cost = Scale(@, budget, cost)]
                           ELSE a1,
                   err |-> FALSE]

\* for activity in day.get('activities', []): stops at the first TypeError.
RECURSIVE AdjustActivities(_, _, _)
AdjustActivities(acts, budget, cost) ==
    IF acts = <<>> THEN [val |-> <<>>, err |-> FALSE]
    ELSE LET first == AdjustActivity(Head(acts), budget, cost)
         IN  IF first.err
             THEN [val |-> <<first.val>> \o Tail(acts), err |-> TRUE]
             ELSE LET rest == AdjustActivities(Tail(acts), budget, cost)
                  IN  [val |-> <<first.val>> \o rest.val, err |-> rest.err]

\* The body of `for day in itinerary.get('daily_itineraries', [])`.
AdjustDay(day, budget, cost) ==
    IF Present(day.day_total_cost) /\ ~IsNum(day.day_total_cost)
    THEN [val |-> day, err |-> TRUE]
    ELSE LET d1 == IF Present(day.day_total_cost)
                   THEN [day EXCEPT !.day_total_cost = Scale(@, budget, cost)]
                   ELSE day
             acts == AdjustActivities(d1.activities, budget, cost)
         IN  [val |-> [d1 EXCEPT !.activities = acts.val], err |-> acts.err]

RECURSIVE AdjustDays(_, _, _)
AdjustDays(days, budget, cost) ==
    IF days = <<>> THEN [val |-> <<>>, err |-> FALSE]
    ELSE LET first == AdjustDay(Head(days), budget, cost)
         IN  IF first.err
             THEN [val |-> <<first.val>> \o Tail(days), err |-> TRUE]
             ELSE LET rest == AdjustDays(Tail(days), budget, cost)
                  IN  [val |-> <<first.val>> \o rest.val, err |-> rest.err]

\* The cost_breakdown loop: only int/float entries are multiplied.
AdjustBreakdown(cb, budget, cost) ==
    [c \in DOMAIN cb |-> IF IsNum(cb[c]) THEN Scale(cb[c], budget, cost) ELSE cb[c]]

\* A variant of the day's adjustment that also rescales the meal,
\* accommodation and transport costs.
AdjustDaysAllCosts(days, budget, cost) ==
    LET r == AdjustDays(days, budget, cost)
        all(d) == [d EXCEPT
            !.meal_cost = IF IsNum(@) THEN Scale(@, budget, cost) ELSE @,
            !.accommodation_cost = IF IsNum(@) THEN Scale(@, budget, cost) ELSE @,
            !.transport_cost = IF IsNum(@) THEN Scale(@, budget, cost) ELSE @]
    IN  [val |-> [i \in 1..Len(r.val) |-> all(r.val[i])], err |-> r.err]

\* AIService._adjust_for_budget: the itinerary is rewritten in place, and the
\* except clause returns it as far as it got.
_adjust_for_budget(itinerary, budget) ==
    LET current_cost == IF "total_estimated_cost" \in itinerary.keys
                        THEN itinerary.total_estimated_cost ELSE Num(0)
    IN  IF ~IsNum(current_cost) \/ ~IsNum(budget) THEN itinerary
        ELSE IF ~NumGt(current_cost, budget) THEN itinerary
        ELSE LET it1 == IF "cost_breakdown" \in itinerary.keys
                        THEN [itinerary EXCEPT !.cost_breakdown =
                                 AdjustBreakdown(@, budget, current_cost)]
                        ELSE itinerary
                 days == AdjustDays(it1.daily_itineraries, budget, current_cost)
                 it2 == [it1 EXCEPT !.daily_itineraries = days.val]
             IN  IF days.err THEN it2
                 ELSE [it2 EXCEPT !.total_estimated_cost = budget,
                                  !.keys = @ \cup {"total_estimated_cost"},
                                  !.budget_adjusted = TRUE]

\* timedelta/int arithmetic of the request's duration: trip_request.get(
\* 'duration_days', 3)
Duration(request) == IF Present(request.duration_days) THEN request.duration_days ELSE Num(3)

\* AIService._create_fallback_itinerary
_create_fallback_itinerary(request) ==
    LET duration == Duration(request)
    IN  IF ~Present(request.budget) THEN Raise("KeyError")
        ELSE IF ~IsNum(request.budget) \/ ~IsNum(duration) THEN Raise("TypeError")
        ELSE IF duration.n = 0 THEN Raise("ZeroDivisionError")
        ELSE LET daily_budget == Frac(request.budget.n, request.budget.d * duration.n)
                 day == [day_total_cost |-> daily_budget,
                         activities |->
                            <<[cost_per_person |-> Frac(daily_budget.n * 20, daily_budget.d * 100),
                               total_cost |-> Absent],
                              [cost_per_person |-> Frac(daily_budget.n * 15, daily_budget.d * 100),
                               total_cost |-> Absent]>>,
                         meal_cost |-> Absent,
                         accommodation_cost |-> Absent,
                         transport_cost |-> Absent]
             IN  Return([keys |-> {"daily_itineraries", "total_estimated_cost"},
                         total_estimated_cost |-> request.budget,
                         cost_breakdown |-> <<>>,
                         daily_itineraries |-> [i \in 1..duration.n |-> day],
                         budget_adjusted |-> FALSE,
                         fallback_mode |-> TRUE])

\* The forms a response text takes: a bare JSON object, an object wrapped in
\* prose or a code fence, two objects, prose without braces, a JSON array.
TextForms == {"object", "wrapped", "two_objects", "prose", "array"}

\* response_text[find('{') : rfind('}') + 1] when both braces are found,
\* else the whole text.
ExtractJson(text) ==
    IF text.form \in {"object", "wrapped", "two_objects"}
    THEN [text EXCEPT !.form = IF @ = "wrapped" THEN "object" ELSE @]
    ELSE text

\* json.loads: a dict, a list, or JSONDecodeError.
JsonLoads(text) ==
    CASE text.form = "object" -> "dict"
      [] text.form = "array" -> "list"
      [] OTHER -> "JSONDecodeError"

\* The required-fields loop.
FillRequired(it) ==
    [it EXCEPT
        !.keys = @ \cup RequiredFields,
        !.daily_itineraries = IF "daily_itineraries" \in it.keys THEN @
                              ELSE _get_default_value("daily_itineraries"),
        !.cost_breakdown = IF "cost_breakdown" \in it.keys THEN @
                           ELSE _get_default_value("cost_breakdown"),
        !.total_estimated_cost = IF "total_estimated_cost" \in it.keys THEN @
                                 ELSE _get_default_value("total_estimated_cost")]

\* AIService._parse_and_validate_response: only JSONDecodeError is caught.
_parse_and_validate_response(text, request) ==
    LET loaded == JsonLoads(ExtractJson(text))
    IN  IF loaded = "JSONDecodeError" THEN _create_fallback_itinerary(request)
        ELSE IF loaded = "list" THEN Raise("TypeError")
        ELSE LET itinerary_data == FillRequired(text.data)
             IN  IF ~Present(request.budget) THEN Raise("KeyError")
                 ELSE IF ~IsNum(itinerary_data.total_estimated_cost)
                         \/ ~IsNum(request.budget)
                 THEN Raise("TypeError")
                 ELSE IF NumGt(itinerary_data.total_estimated_cost, request.budget)
                 THEN Return(_adjust_for_budget(itinerary_data, request.budget))
                 ELSE Return(itinerary_data)

TripRequests == [budget : {Num(1), Num(3)}, duration_days : {Absent, Num(0), Num(2)}]

ResponseTexts ==
    [form : {"object", "wrapped"}, data : SampleItineraries]
        \cup [form : {"two_objects", "prose", "array"}, data : {EmptyItinerary}]

ParseIdle ==
    /\ response_text = [form |-> "prose", data |-> EmptyItinerary]
    /\ trip_request = [budget |-> Num(1), duration_days |-> Absent]
    /\ parse_result = NoResult

ParseInit ==
    /\ response_text \in ResponseTexts
    /\ trip_request \in TripRequests
    /\ parse_result = NoResult

ParseAndValidate ==
    /\ parse_result.kind = "none"
    /\ parse_result' = _parse_and_validate_response(response_text, trip_request)
    /\ UNCHANGED <<response_text, trip_request>>
    /\ UNCHANGED not_parse_vars

ParseNext == ParseAndValidate

----------------------------------------------------------------------------
(* Service operations: error handlers and the retry wrapper                *)

\* stop_after_attempt(3)
StopAfterAttempt == 3

\* How the external services answer during one attempt.  redis is
\* "disabled" when settings.use_redis_cache is off (redis_client is None).
Envs == [model : {"ok", "fail"}, stripe : {"ok", "fail"},
         warehouse : {"ok", "fail"}, emt : {"ok", "fail"},
         redis : {"disabled", "up", "down", "get_fails", "set_fails"}]

\* The Redis get / set of this attempt raises.
GetFails(e) == e.redis \in {"down", "get_fails"}
SetFails(e) == e.redis \in {"down", "set_fails"}

Ret(v) == [kind |-> "return", exc |-> "", value |-> v]
Exc(e) == [kind |-> "raise", exc |-> e, value |-> ""]

NoEntry == [hit |-> FALSE, itinerary |-> EmptyItinerary]
Entry(it) == [hit |-> TRUE, itinerary |-> it]

\* BigQueryService.log_analytics_event / log_application_log: the insert is
\* inside try/except Exception, nothing is re-raised.
log_analytics_event(e) == Ret("None")
log_application_log(e) == Ret("None")

\* BigQueryService.insert_trip, get_trip, update_trip, insert_booking,
\* get_user_trips, get_analytics_summary: log the error and `raise`.
WarehouseDataOps == {"insert_trip", "get_trip", "update_trip", "insert_booking",
                     "get_user_trips", "get_analytics_summary"}
warehouse_data_op(e) == IF e.warehouse = "fail" THEN Exc("Exception") ELSE Ret("rows")

\* AIService._get_cached_response
_get_cached_response(e) ==
    IF e.redis = "disabled" THEN NoEntry
    ELSE IF GetFails(e) THEN NoEntry
    ELSE itinerary_cache

\* AIService._cache_response: the new content of the cache entry.
_cache_response(e, data) ==
    IF e.redis = "disabled" \/ SetFails(e) THEN itinerary_cache ELSE Entry(data)

\* AIService._create_enhanced_prompt: trip_request['budget'] / duration
_create_enhanced_prompt(request) ==
    IF ~Present(request.budget) THEN Exc("KeyError")
    ELSE IF ~IsNum(request.budget) \/ ~IsNum(Duration(request)) THEN Exc("TypeError")
    ELSE IF Duration(request).n = 0 THEN Exc("ZeroDivisionError")
    ELSE Ret("prompt")

\* The except clause of generate_itinerary: log, then return the fallback
\* (whose construction may itself raise).
HandlerOutcome(fallback) ==
    [outcome |-> IF fallback.kind = "return" THEN Ret(fallback.itinerary)
                 ELSE Exc(fallback.exc),
     cache |-> itinerary_cache]
GenerateHandler(e, request) == HandlerOutcome(_create_fallback_itinerary(request))

\* The try block of generate_itinerary after the cache lookup and the
\* parsing: a cached itinerary is returned at once; a failure of the prompt
\* construction, of the model call or of the parsing goes to the handler.
GenerateBody(e, request, cached_response, parsed) ==
    IF cached_response.hit
    THEN [outcome |-> Ret(cached_response.itinerary), cache |-> itinerary_cache]
    ELSE IF \/ _create_enhanced_prompt(request).kind = "raise"
            \/ e.model = "fail"
            \/ parsed.kind = "raise"
    THEN GenerateHandler(e, request)
    ELSE [outcome |-> Ret(parsed.itinerary),
          cache |-> _cache_response(e, parsed.itinerary)]

\* One attempt of AIService.generate_itinerary (the decorated function's
\* body): its outcome and the cache entry it leaves.
\* A variant of generate_itinerary whose cache lookup has no try/except of
\* its own: a Redis error on get lands in the function's except clause.
generate_itinerary_cache_unguarded(e, request, text) ==
    IF GetFails(e) THEN GenerateHandler(e, request)
    ELSE GenerateBody(e, request, _get_cached_response(e),
                      _parse_and_validate_response(text, request))

generate_itinerary(e, request, text) ==
    GenerateBody(e, request, _get_cached_response(e),
                 _parse_and_validate_response(text, request))

\* AIService.chat_assistance, optimize_itinerary, get_real_time_suggestions,
\* translate_content: except Exception returns a fixed value.
AiFixedOps == {"chat_assistance", "optimize_itinerary",
               "get_real_time_suggestions", "translate_content"}
AiDefault(op) ==
    CASE op = "chat_assistance" -> "apology"
      [] op = "optimize_itinerary" -> "itinerary"
      [] op = "get_real_time_suggestions" -> "[]"
      [] op = "translate_content" -> "content"
ai_fixed_op(op, e) == IF e.model = "fail" THEN Ret(AiDefault(op)) ELSE Ret("response")

\* MapsService._get_from_cache / _save_to_cache
_get_from_cache(e) ==
    IF e.redis = "disabled" \/ GetFails(e) THEN "none" ELSE place_cache
_save_to_cache(e, data) ==
    IF e.redis = "disabled" \/ SetFails(e) THEN place_cache ELSE data

\* A variant of get_place_details whose except clause re-raises.
get_place_details_reraise(e) ==
    IF _get_from_cache(e) # "none"
    THEN [outcome |-> Ret(_get_from_cache(e)), cache |-> place_cache]
    ELSE IF gmaps = "unset" THEN [outcome |-> Ret("mock"), cache |-> place_cache]
    ELSE IF gmaps = "fail" THEN [outcome |-> Exc("ApiError"), cache |-> place_cache]
    ELSE [outcome |-> Ret("place_data"), cache |-> _save_to_cache(e, "place_data")]

\* One attempt of MapsService.get_place_details: its outcome and the cache
\* entry it leaves.  The except clause logs and returns {}.
get_place_details(e) ==
    IF _get_from_cache(e) # "none"
    THEN [outcome |-> Ret(_get_from_cache(e)), cache |-> place_cache]
    ELSE IF gmaps = "unset" THEN [outcome |-> Ret("mock"), cache |-> place_cache]
    ELSE IF gmaps = "fail" THEN [outcome |-> Ret("{}"), cache |-> place_cache]
    ELSE [outcome |-> Ret("place_data"), cache |-> _save_to_cache(e, "place_data")]

\* MapsService.search_nearby, get_directions, calculate_distance_matrix,
\* geocode_address, find_hotels, find_restaurants, get_place_photos: mock
\* data without a client, and except Exception returns the empty value.
MapsDefaultOps == {"search_nearby", "get_directions", "calculate_distance_matrix",
                   "geocode_address", "find_hotels", "find_restaurants",
                   "get_place_photos"}
MapsDefault(op) ==
    CASE op \in {"search_nearby", "find_hotels", "find_restaurants", "get_place_photos"} -> "[]"
      [] op \in {"get_directions", "calculate_distance_matrix"} -> "{}"
      [] op = "geocode_address" -> "None"
maps_default_op(op, e) ==
    IF gmaps = "unset" THEN Ret(IF op = "get_place_photos" THEN "[]" ELSE "mock")
    ELSE IF gmaps = "fail" THEN Ret(MapsDefault(op))
    ELSE Ret("data")

\* PaymentMethod
PaymentMethods == {"credit_card", "debit_card", "upi", "net_banking", "wallet"}

PaymentRequests == [payment_method : PaymentMethods, amount : {100, 250},
                    currency : {"INR", "USD"}]

NoArg == [payment_method |-> "", amount |-> 0, currency |-> ""]

\* A variant of _process_card_payment without its except clause.
_process_card_payment_unguarded(payment_request, e) ==
    IF e.stripe = "fail" THEN Exc("StripeError")
    ELSE Ret([status |-> "succeeded", transaction_id |-> "pi_1"])

\* PaymentService._process_card_payment
_process_card_payment(payment_request, e) ==
    IF e.stripe = "fail" THEN Ret([status |-> "failed", transaction_id |-> ""])
    ELSE Ret([status |-> "succeeded", transaction_id |-> "pi_1"])

\* PaymentService._process_upi_payment, _process_netbanking_payment,
\* _process_wallet_payment: mock processors that always succeed.
_process_upi_payment(payment_request, e) ==
    Ret([status |-> "succeeded", transaction_id |-> "UPI1"])
_process_netbanking_payment(payment_request, e) ==
    Ret([status |-> "succeeded", transaction_id |-> "NB1"])
_process_wallet_payment(payment_request, e) ==
    Ret([status |-> "succeeded", transaction_id |-> "WL1"])

PaymentResponse(st, payment_request, txn) ==
    [status |-> st, amount |-> payment_request.amount,
     currency |-> payment_request.currency,
     payment_method |-> payment_request.payment_method,
     transaction_id |-> txn]

\* PaymentService.process_payment after the processor answered: a
\* stripe.error.CardError gives a 'failed' response, any other exception is
\* printed and re-raised.
PaymentOutcome(payment_request, result) ==
    IF result.kind = "raise"
    THEN IF result.exc = "CardError"
         THEN Ret(PaymentResponse("failed", payment_request, ""))
         ELSE Exc(result.exc)
    ELSE IF result.value.status = "succeeded"
         THEN Ret(PaymentResponse("success", payment_request,
                                  result.value.transaction_id))
         ELSE Ret(PaymentResponse("failed", payment_request,
                                  result.value.transaction_id))

\* The processor process_payment dispatches to for the request's method.
Processor(payment_request, e) ==
    CASE payment_request.payment_method \in {"credit_card", "debit_card"} ->
            _process_card_payment(payment_request, e)
      [] payment_request.payment_method = "upi" ->
            _process_upi_payment(payment_request, e)
      [] payment_request.payment_method = "net_banking" ->
            _process_netbanking_payment(payment_request, e)
      [] payment_request.payment_method = "wallet" ->
            _process_wallet_payment(payment_request, e)
      [] OTHER -> Exc("ValueError")

\* PaymentService.process_payment
process_payment(payment_request, e) ==
    PaymentOutcome(payment_request, Processor(payment_request, e))

\* PaymentService.create_payment_session: print and `raise`.
create_payment_session(e) ==
    IF e.stripe = "fail" THEN Exc("StripeError") ELSE Ret("session")

\* A variant of verify_payment whose except clause re-raises.
verify_payment_reraise(e) ==
    IF e.stripe = "fail" THEN Exc("StripeError") ELSE Ret("status")

\* PaymentService.verify_payment / process_refund: return a status dict.
verify_payment(e) == IF e.stripe = "fail" THEN Ret("unknown") ELSE Ret("status")
process_refund(e) == IF e.stripe = "fail" THEN Ret("failed") ELSE Ret("refund")

\* BookingService._book_flight and the other _book_* helpers re-raise;
\* _create_emt_booking catches that and returns a 'failed' dict.
_book_item(e) == IF e.emt = "fail" THEN Exc("Exception") ELSE Ret("confirmed")
_create_emt_booking(e) ==
    IF _book_item(e).kind = "raise" THEN Ret("failed") ELSE _book_item(e)

\* BookingService.create_booking over well-formed items: the booking is
\* built whatever _create_emt_booking answered.
create_booking(e) ==
    IF _create_emt_booking(e).value = "failed" THEN Ret("booking_without_code")
    ELSE Ret("booking")

Operations ==
    {"generate_itinerary", "get_place_details", "process_payment",
     "create_payment_session", "verify_payment", "process_refund",
     "create_booking", "log_analytics_event", "log_application_log"}
        \cup AiFixedOps \cup MapsDefaultOps \cup WarehouseDataOps

\* @retry(stop=stop_after_attempt(3), wait=wait_exponential(...))
Retried == {"generate_itinerary", "get_place_details"}

\* A variant of the retry condition that also re-runs an attempt that
\* returned (retry_if_result).
retry_on_result(op, outcome) == op \in Retried

\* @retry without a retry= argument: tenacity's default condition re-runs
\* the decorated function exactly when the attempt raised.
retry(op, outcome) == outcome.kind = "raise" /\ op \in Retried

\* The external service an operation calls.
ExternalOf(op) ==
    CASE op \in {"generate_itinerary"} \cup AiFixedOps -> "model"
      [] op \in {"get_place_details"} \cup MapsDefaultOps -> "maps"
      [] op \in {"process_payment", "create_payment_session", "verify_payment",
                 "process_refund"} -> "stripe"
      [] op = "create_booking" -> "emt"
      [] OTHER -> "warehouse"

\* The outcome of one attempt of op and the cache entries it leaves.
Unchanged(o) == [outcome |-> o, icache |-> itinerary_cache, pcache |-> place_cache]
WithItineraryCache(g) == [outcome |-> g.outcome, icache |-> g.cache, pcache |-> place_cache]
WithPlaceCache(g) == [outcome |-> g.outcome, icache |-> itinerary_cache, pcache |-> g.cache]
Attempt(op, e, arg) ==
    CASE op = "generate_itinerary" ->
            WithItineraryCache(generate_itinerary(e, trip_request, response_text))
      [] op = "get_place_details" -> WithPlaceCache(get_place_details(e))
      [] op \in AiFixedOps -> Unchanged(ai_fixed_op(op, e))
      [] op \in MapsDefaultOps -> Unchanged(maps_default_op(op, e))
      [] op = "process_payment" -> Unchanged(process_payment(arg, e))
      [] op = "create_payment_session" -> Unchanged(create_payment_session(e))
      [] op = "verify_payment" -> Unchanged(verify_payment(e))
      [] op = "process_refund" -> Unchanged(process_refund(e))
      [] op = "create_booking" -> Unchanged(create_booking(e))
      [] op = "log_analytics_event" -> Unchanged(log_analytics_event(e))
      [] op = "log_application_log" -> Unchanged(log_application_log(e))
      [] op \in WarehouseDataOps -> Unchanged(warehouse_data_op(e))

IdleCall == [op |-> "", arg |-> NoArg, attempt |-> 0, status |-> "idle"]
IdleEnv == [model |-> "ok", stripe |-> "ok", warehouse |-> "ok", emt |-> "ok",
            redis |-> "disabled"]

OpsIdle ==
    /\ env = IdleEnv
    /\ call = IdleCall
    /\ op_result = Ret("")
    /\ itinerary_cache = NoEntry
    /\ place_cache = "none"

\* The requests and model answers the operations are exercised with.
OpsRequests == [budget : {Absent, Num(3)}, duration_days : {Absent, Num(0)}]
OpsTexts ==
    {[form |-> "prose", data |-> EmptyItinerary],
     [form |-> "array", data |-> EmptyItinerary],
     [form |-> "object", data |-> [EmptyItinerary EXCEPT
         !.keys = {"total_estimated_cost"}, !.total_estimated_cost = Num(2)]]}

\* A caller starts an operation.
OpsCall ==
    /\ call.status = "idle"
    /\ \E op \in Operations :
         /\ \E arg \in (IF op = "process_payment" THEN PaymentRequests ELSE {NoArg}) :
              call' = [op |-> op, arg |-> arg, attempt |-> 0, status |-> "running"]
         /\ IF op = "generate_itinerary"
            THEN trip_request' \in OpsRequests /\ response_text' \in OpsTexts
            ELSE UNCHANGED <<trip_request, response_text>>
    /\ env' \in Envs
    /\ gmaps' \in {"unset", "ok", "fail"}
    /\ UNCHANGED <<op_result, itinerary_cache, place_cache>>
    /\ UNCHANGED not_ops_vars

\* One attempt of the running operation.  A retried operation whose attempt
\* raised is attempted again (the services may answer differently after the
\* wait) until stop_after_attempt, then RetryError is raised.
OpsAttempt ==
    /\ call.status = "running"
    /\ \E a \in {Attempt(call.op, env, call.arg)} :
       \E again \in {retry(call.op, a.outcome)} :
           /\ itinerary_cache' = a.icache
           /\ place_cache' = a.pcache
           /\ IF again /\ call.attempt + 1 < StopAfterAttempt
              THEN /\ call' = [call EXCEPT !.attempt = @ + 1]
                   /\ op_result' = a.outcome
                   /\ env' \in Envs
                   /\ gmaps' \in IF gmaps = "unset" THEN {"unset"} ELSE {"ok", "fail"}
              ELSE /\ call' = [call EXCEPT !.attempt = @ + 1, !.status = "done"]
                   /\ op_result' = IF again THEN Exc("RetryError") ELSE a.outcome
                   /\ UNCHANGED <<env, gmaps>>
    /\ UNCHANGED <<trip_request, response_text>>
    /\ UNCHANGED not_ops_vars

\* The caller has its answer; the service is ready for the next call.
OpsFinish ==
    /\ call.status = "done"
    /\ call' = IdleCall
    /\ op_result' = Ret("")
    /\ env' = IdleEnv
    /\ gmaps' = "unset"
    /\ trip_request' = [budget |-> Num(1), duration_days |-> Absent]
    /\ response_text' = [form |-> "prose", data |-> EmptyItinerary]
    /\ UNCHANGED <<itinerary_cache, place_cache>>
    /\ UNCHANGED not_ops_vars

OpsNext == OpsCall \/ OpsAttempt \/ OpsFinish

----------------------------------------------------------------------------
(* Chat: concurrent chat_assistance coroutines on one event loop           *)

\* "Keep only last 20 messages"
HistoryLimit == 20
\* history[-5:] in the prompt
PromptWindow == 5

Coroutines == {1, 2}
\* user_id: None or a user
Users == {"none", "u1", "u2"}
Conversations == {"c1", "c2"}
RedisKeys == (Users \ {"none"}) \X Conversations

\* s[-n:]
LastN(s, n) == IF Len(s) > n THEN SubSeq(s, Len(s) - n + 1, Len(s)) ELSE s

NoHistories == [c \in Conversations |-> <<>>]

\* Message 0 is the exchange user u1 stored in Redis before the service
\* started; message n is the one the n-th call is made with.
NoSenders == [m \in 0..MaxCalls |-> IF m = 0 THEN "u1" ELSE "unsent"]
EmptyRedis == [k \in RedisKeys |-> <<>>]

IdleChat ==
    [pc |-> "idle", message |-> 0, user_id |-> "none", conversation_id |-> "c1",
     history |-> <<>>, prompt_history |-> <<>>, reply |-> <<>>, pending |-> <<>>,
     failed |-> FALSE, result |-> ""]

ChatIdle ==
    /\ conversation_history = NoHistories
    /\ redis_client = FALSE
    /\ redis_store = EmptyRedis
    /\ redis_at_start = EmptyRedis
    /\ chat = [p \in Coroutines |-> IdleChat]
    /\ calls = 0
    /\ senders = NoSenders

\* A fresh AIService: conversation_history = {}.  Redis may hold a history
\* an earlier run of the service stored (message 0 stands for it).
ChatInit ==
    /\ conversation_history = NoHistories
    /\ redis_client \in BOOLEAN
    /\ redis_store \in {EmptyRedis, [EmptyRedis EXCEPT ![<<"u1", "c1">>] = <<0>>]}
    /\ redis_client = FALSE => redis_store = EmptyRedis
    /\ redis_at_start = redis_store
    /\ chat = [p \in Coroutines |-> IdleChat]
    /\ calls = 0
    /\ senders = NoSenders

\* A variant of chat_assistance that stores the user's message before it
\* calls the model.
ChatProceedStoreFirst(p, c, history) ==
    \E model_ok \in BOOLEAN :
        /\ conversation_history' =
               [conversation_history EXCEPT ![c.conversation_id] =
                   LastN(Append(@, c.message), HistoryLimit)]
        /\ chat' = [chat EXCEPT ![p] =
               [c EXCEPT !.history = history,
                         !.prompt_history = LastN(history, PromptWindow),
                         !.pc = "done", !.failed = ~model_ok,
                         !.result = IF model_ok THEN "response" ELSE "apology"]]

\* chat_assistance from the point where the history is known up to its next
\* await: build the prompt, call the model (synchronous), and on success
\* _update_conversation_history up to the Redis set.  A model failure goes
\* to the except clause, which returns the apology.
ChatProceed(p, c, history) ==
    \E model_ok \in BOOLEAN :
        IF ~model_ok
        THEN /\ chat' = [chat EXCEPT ![p] =
                    [c EXCEPT !.pc = "done", !.history = history,
                              !.prompt_history = LastN(history, PromptWindow),
                              !.failed = TRUE, !.result = "apology"]]
             /\ UNCHANGED conversation_history
        ELSE /\ conversation_history' =
                    [conversation_history EXCEPT ![c.conversation_id] =
                        LastN(Append(@, c.message), HistoryLimit)]
             /\ chat' = [chat EXCEPT ![p] =
                    [c EXCEPT !.history = history,
                              !.prompt_history = LastN(history, PromptWindow),
                              !.pending = conversation_history'[c.conversation_id],
                              !.pc = IF redis_client /\ c.user_id # "none"
                                     THEN "set_sent" ELSE "done",
                              !.result = IF redis_client /\ c.user_id # "none"
                                         THEN "" ELSE "response"]]

\* A chat_assistance call starts and runs to its first await:
\* _get_conversation_history answers from memory without suspending, or
\* sends the Redis get, or answers [] when there is no client or no user.
\* With track, the user_id the message came with is remembered.
ChatStart(track) ==
    /\ calls < MaxCalls
    /\ \E p \in Coroutines, u \in Users, cid \in Conversations :
         /\ chat[p].pc \in {"idle", "done"}
         /\ calls' = calls + 1
         /\ senders' = IF track THEN [senders EXCEPT ![calls + 1] = u] ELSE senders
         /\ LET c == [IdleChat EXCEPT !.message = calls + 1, !.user_id = u,
                                      !.conversation_id = cid]
            IN  IF conversation_history[cid] # <<>>
                THEN ChatProceed(p, c, conversation_history[cid])
                ELSE IF redis_client /\ u # "none"
                THEN /\ chat' = [chat EXCEPT ![p] = [c EXCEPT !.pc = "get_sent"]]
                     /\ UNCHANGED conversation_history
                ELSE ChatProceed(p, c, <<>>)
    /\ UNCHANGED <<redis_client, redis_store, redis_at_start>>
    /\ UNCHANGED not_chat_vars

ChatCall == ChatStart(FALSE)
ChatCallTracked == ChatStart(TRUE)

\* Redis serves a get: the value under the key at that moment, or an error.
ChatGetServe ==
    /\ \E p \in Coroutines, ok \in BOOLEAN :
         /\ chat[p].pc = "get_sent"
         /\ chat' = [chat EXCEPT ![p].pc = "get_served",
                        ![p].reply = IF ok
                                     THEN redis_store[<<chat[p].user_id,
                                                        chat[p].conversation_id>>]
                                     ELSE <<>>,
                        ![p].failed = ~ok]
    /\ UNCHANGED <<conversation_history, redis_client, redis_store,
                   redis_at_start, calls, senders>>
    /\ UNCHANGED not_chat_vars

\* The coroutine resumes after the get: the cached history if there is one,
\* [] otherwise (also after an error), then on to the prompt and the model.
ChatGetResume ==
    /\ \E p \in Coroutines :
         /\ chat[p].pc = "get_served"
         /\ ChatProceed(p, chat[p], chat[p].reply)
    /\ UNCHANGED <<redis_client, redis_store, redis_at_start, calls, senders>>
    /\ UNCHANGED not_chat_vars

\* Redis serves a set with the JSON text the coroutine sent, or fails.
ChatSetServe ==
    /\ \E p \in Coroutines, ok \in BOOLEAN :
         /\ chat[p].pc = "set_sent"
         /\ redis_store' = IF ok
                           THEN [redis_store EXCEPT ![<<chat[p].user_id,
                                    chat[p].conversation_id>>] = chat[p].pending]
                           ELSE redis_store
         /\ chat' = [chat EXCEPT ![p].pc = "set_served",
                                 ![p].failed = @ \/ ~ok]
    /\ UNCHANGED <<conversation_history, redis_client, redis_at_start, calls, senders>>
    /\ UNCHANGED not_chat_vars

\* The coroutine resumes after the set (an error is logged and dropped),
\* logs the interaction and returns the model's text.
ChatSetResume ==
    /\ \E p \in Coroutines :
         /\ chat[p].pc = "set_served"
         /\ chat' = [chat EXCEPT ![p].pc = "done", ![p].result = "response"]
    /\ UNCHANGED <<conversation_history, redis_client, redis_store,
                   redis_at_start, calls, senders>>
    /\ UNCHANGED not_chat_vars

ChatNext ==
    ChatCall \/ ChatGetServe \/ ChatGetResume \/ ChatSetServe \/ ChatSetResume

\* The same calls, remembering who sent each message.
ChatUsersNext ==
    ChatCallTracked \/ ChatGetServe \/ ChatGetResume \/ ChatSetServe
        \/ ChatSetResume

----------------------------------------------------------------------------
(* HTTP: the route table of main.py and the handlers of routes.py          *)
(* A path is the sequence of its segments.  The CORS and trusted-host      *)
(* middleware and the HEAD and OPTIONS methods are left out: requests are  *)
(* GET, POST or PUT requests that reach the router.                        *)

Methods == {"GET", "POST", "PUT"}
PathParams == {"{trip_id}", "{booking_id}", "{session_id}"}

\* settings: the defaults of config.py for app_name and app_version; the
\* other attributes main.py reads come from the environment.
Settings ==
    [app_name : {"AI Trip Planner", "AI Trip Planner API"},
     app_version : {"1.0.0"},
     environment : {"development"},
     debug : BOOLEAN, enable_metrics : BOOLEAN, rate_limit_enabled : BOOLEAN,
     use_redis_cache : BOOLEAN, gemini_api_key : BOOLEAN,
     google_maps_api_key : BOOLEAN]

DefaultSettings ==
    [app_name |-> "AI Trip Planner", app_version |-> "1.0.0",
     environment |-> "development", debug |-> TRUE, enable_metrics |-> FALSE,
     rate_limit_enabled |-> FALSE, use_redis_cache |-> FALSE,
     gemini_api_key |-> FALSE, google_maps_api_key |-> FALSE]

\* Request bodies: none, a JSON object without or with a message, an array.
NoBody == [kind |-> "none", keys |-> {}, message |-> ""]
Bodies ==
    {NoBody,
     [kind |-> "object", keys |-> {}, message |-> ""],
     [kind |-> "object", keys |-> {"message"}, message |-> "hi"],
     [kind |-> "array", keys |-> {}, message |-> ""]}

Api(rest) == <<"api", "v1">> \o rest

Paths ==
    {<<>>, <<"metrics">>, <<"docs">>, <<"openapi.json">>, <<"nowhere">>,
     Api(<<"health">>), Api(<<"chat">>), Api(<<"suggestions">>),
     Api(<<"trips", "create">>), Api(<<"trips", "t1">>),
     Api(<<"trips", "t1", "update">>), Api(<<"trips", "t1", "summary">>),
     Api(<<"bookings", "create">>), Api(<<"bookings", "b1", "confirm">>),
     Api(<<"bookings", "b1", "cancel">>), Api(<<"bookings", "b1", "status">>),
     Api(<<"payments", "process">>), Api(<<"payments", "create-session">>),
     Api(<<"payments", "verify", "s1">>), Api(<<"payments", "refund">>),
     Api(<<"places", "search">>), Api(<<"places", "nearby">>),
     Api(<<"directions">>), Api(<<"hotels", "search">>),
     Api(<<"restaurants", "search">>)}

Requests == [method : Methods, path : Paths, body : Bodies,
             query : {"absent", "Louvre"}, location : {"absent", "Paris"}]

NoRequest == [method |-> "", path |-> <<>>, body |-> NoBody, query |-> "absent",
              location |-> "absent"]
NoResponse == [status_code |-> 0, body |-> [detail |-> ""]]

Response(code, content) == [status_code |-> code, body |-> content]

\* A route: its method, its path template, its endpoint, and whether the
\* endpoint declares a Dict body parameter or a required query parameter.
Route(m, template, endpoint, takes_body, takes_query) ==
    [method |-> m, path |-> template, endpoint |-> endpoint,
     body |-> takes_body, query |-> takes_query]

\* The routes of routes.py, in the order of their decorators.
RouterRoutes ==
    <<Route("POST", Api(<<"trips", "create">>), "create_trip", TRUE, FALSE),
      Route("GET", Api(<<"trips", "{trip_id}">>), "get_trip", FALSE, FALSE),
      Route("PUT", Api(<<"trips", "{trip_id}", "update">>), "update_trip", TRUE, FALSE),
      Route("GET", Api(<<"trips", "{trip_id}", "summary">>), "get_trip_summary", FALSE, FALSE),
      Route("POST", Api(<<"chat">>), "chat_with_ai", TRUE, FALSE),
      Route("POST", Api(<<"suggestions">>), "get_suggestions", TRUE, FALSE),
      Route("POST", Api(<<"bookings", "create">>), "create_booking", TRUE, FALSE),
      Route("POST", Api(<<"bookings", "{booking_id}", "confirm">>), "confirm_booking", TRUE, FALSE),
      Route("POST", Api(<<"bookings", "{booking_id}", "cancel">>), "cancel_booking", TRUE, FALSE),
      Route("GET", Api(<<"bookings", "{booking_id}", "status">>), "get_booking_status", FALSE, FALSE),
      Route("POST", Api(<<"payments", "process">>), "process_payment", TRUE, FALSE),
      Route("POST", Api(<<"payments", "create-session">>), "create_payment_session", TRUE, FALSE),
      Route("GET", Api(<<"payments", "verify", "{session_id}">>), "verify_payment", FALSE, FALSE),
      Route("POST", Api(<<"payments", "refund">>), "process_refund", TRUE, FALSE),
      Route("GET", Api(<<"places", "search">>), "search_places", FALSE, TRUE),
      Route("POST", Api(<<"places", "nearby">>), "search_nearby_places", TRUE, FALSE),
      Route("POST", Api(<<"directions">>), "get_directions", TRUE, FALSE),
      Route("POST", Api(<<"hotels", "search">>), "search_hotels", TRUE, FALSE),
      Route("POST", Api(<<"restaurants", "search">>), "search_restaurants", TRUE, FALSE),
      Route("GET", Api(<<"health">>), "router.health_check", FALSE, FALSE)>>

\* The routes FastAPI adds when the app is created.
DocsRoutes(s) ==
    <<Route("GET", <<"openapi.json">>, "openapi", FALSE, FALSE)>>
    \o (IF s.debug THEN <<Route("GET", <<"docs">>, "swagger_ui_html", FALSE, FALSE)>>
        ELSE <<>>)

\* The routes main.py declares on the app itself.
AppRoutes(s) ==
    <<Route("GET", <<>>, "root", FALSE, FALSE),
      Route("GET", Api(<<"health">>), "app.health_check", FALSE, FALSE)>>
    \o (IF s.enable_metrics THEN <<Route("GET", <<"metrics">>, "metrics", FALSE, FALSE)>>
        ELSE <<>>)

\* A route table in which the app's own routes come before the router's.
RoutesAppFirst(s) == DocsRoutes(s) \o AppRoutes(s) \o RouterRoutes

\* app.router.routes: app.include_router(router) runs before the app's own
\* decorators.
Routes(s) == DocsRoutes(s) \o RouterRoutes \o AppRoutes(s)

\* A template matches a path when each segment is equal or a parameter.
PathMatches(template, path) ==
    /\ Len(template) = Len(path)
    /\ \A i \in 1..Len(path) : template[i] \in PathParams \/ template[i] = path[i]

FullMatches(routes, req) ==
    {i \in 1..Len(routes) : /\ PathMatches(routes[i].path, req.path)
                            /\ routes[i].method = req.method}
PartialMatches(routes, req) ==
    {i \in 1..Len(routes) : PathMatches(routes[i].path, req.path)}

First(S) == CHOOSE i \in S : \A j \in S : i <= j

\* routes.chat_with_ai with request["message"] in place of request.get.
chat_with_ai_indexing(req) ==
    IF "message" \notin req.body.keys THEN Exc("KeyError")
    ELSE Ret(Response(200, [status |-> "success", message |-> req.body.message,
                            response |-> "AI chat endpoint - implementation pending"]))

\* routes.chat_with_ai
chat_with_ai(req) ==
    Ret(Response(200, [status |-> "success",
                       message |-> IF "message" \in req.body.keys
                                   THEN req.body.message ELSE "",
                       response |-> "AI chat endpoint - implementation pending"]))

\* routes.health_check
routes_health_check ==
    Ret(Response(200, [status |-> "healthy", service |-> "AI Trip Planner API",
                       version |-> "1.0.0"]))

\* main.health_check: degraded when the warehouse call raises or no Gemini
\* key is configured.
health_check(s, w) ==
    Ret(Response(200,
        [status |-> IF \/ log_analytics_event([IdleEnv EXCEPT !.warehouse = w]).kind = "raise"
                       \/ ~s.gemini_api_key
                    THEN "degraded" ELSE "healthy",
         service |-> s.app_name,
         version |-> s.app_version,
         environment |-> s.environment,
         checks |-> [bigquery |-> IF log_analytics_event(
                                        [IdleEnv EXCEPT !.warehouse = w]).kind = "raise"
                                  THEN "unhealthy" ELSE "healthy",
                     redis |-> IF s.use_redis_cache THEN "healthy" ELSE "absent",
                     gemini_api |-> IF s.gemini_api_key THEN "configured"
                                    ELSE "not configured",
                     maps_api |-> IF s.google_maps_api_key THEN "configured"
                                  ELSE "not configured"]]))

\* main.root
root(s) ==
    Ret(Response(200,
        [message |-> "Welcome to " \o s.app_name,
         version |-> s.app_version,
         environment |-> s.environment,
         documentation |-> IF s.debug THEN "/docs" ELSE "Disabled in production",
         health |-> "/api/v1/health",
         metrics |-> IF s.enable_metrics THEN "/metrics" ELSE "Disabled"]))

Pending(text) == text \o " endpoint - implementation pending"

\* routes.get_trip answering with a fixed id, as create_booking does.
routes_get_trip_fixed(req) ==
    Ret(Response(200, [status |-> "success", trip_id |-> "test-trip-123",
                       message |-> Pending("Trip details")]))

\* routes.get_trip
routes_get_trip(req) ==
    Ret(Response(200, [status |-> "success", trip_id |-> req.path[4],
                       message |-> Pending("Trip details")]))

\* routes.get_booking_status answering 'confirmed' once a confirmation of
\* the booking has been answered.
routes_get_booking_status_tracking(req) ==
    Ret(Response(200,
        [status |-> IF \E e \in earlier :
                          /\ e.request.method = "POST"
                          /\ e.request.path = Api(<<"bookings", req.path[4], "confirm">>)
                          /\ e.response.status_code = 200
                    THEN "confirmed" ELSE "pending",
         booking_id |-> req.path[4],
         message |-> Pending("Booking status")]))

\* routes.get_booking_status
routes_get_booking_status(req) ==
    Ret(Response(200, [status |-> "pending", booking_id |-> req.path[4],
                       message |-> Pending("Booking status")]))

\* The other handlers of routes.py and the app's built-in pages.
Endpoint(name, req, s, w) ==
    CASE name = "create_trip" ->
            Ret(Response(200, [status |-> "success", message |-> Pending("Trip creation"),
                               trip_request |-> req.body]))
      [] name = "get_trip" -> routes_get_trip(req)
      [] name = "update_trip" ->
            Ret(Response(200, [status |-> "success", trip_id |-> req.path[4],
                               message |-> Pending("Trip update")]))
      [] name = "get_trip_summary" ->
            Ret(Response(200, [status |-> "success", trip_id |-> req.path[4],
                               message |-> Pending("Trip summary")]))
      [] name = "chat_with_ai" -> chat_with_ai(req)
      [] name = "get_suggestions" ->
            Ret(Response(200, [status |-> "success", suggestions |-> <<>>,
                               message |-> Pending("Suggestions")]))
      [] name = "create_booking" ->
            Ret(Response(200, [status |-> "success", booking_id |-> "test-booking-123",
                               message |-> Pending("Booking creation")]))
      [] name = "confirm_booking" ->
            Ret(Response(200, [status |-> "success", booking_id |-> req.path[4],
                               message |-> Pending("Booking confirmation")]))
      [] name = "cancel_booking" ->
            Ret(Response(200, [status |-> "success", booking_id |-> req.path[4],
                               message |-> Pending("Booking cancellation")]))
      [] name = "get_booking_status" -> routes_get_booking_status(req)
      [] name = "process_payment" ->
            Ret(Response(200, [status |-> "success", payment_id |-> "test-payment-123",
                               message |-> Pending("Payment processing")]))
      [] name = "create_payment_session" ->
            Ret(Response(200, [status |-> "success", session_id |-> "test-session-123",
                               message |-> Pending("Payment session creation")]))
      [] name = "verify_payment" ->
            Ret(Response(200, [status |-> "verified", session_id |-> req.path[5],
                               message |-> Pending("Payment verification")]))
      [] name = "process_refund" ->
            Ret(Response(200, [status |-> "success", refund_id |-> "test-refund-123",
                               message |-> Pending("Refund processing")]))
      [] name = "search_places" ->
            Ret(Response(200, [status |-> "success", query |-> req.query,
                               location |-> IF req.location = "absent" THEN "None"
                                            ELSE req.location,
                               places |-> <<>>,
                               message |-> Pending("Place search")]))
      [] name = "search_nearby_places" ->
            Ret(Response(200, [status |-> "success", places |-> <<>>,
                               message |-> Pending("Nearby places search")]))
      [] name = "get_directions" ->
            Ret(Response(200, [status |-> "success", directions |-> <<>>,
                               message |-> Pending("Directions")]))
      [] name = "search_hotels" ->
            Ret(Response(200, [status |-> "success", hotels |-> <<>>,
                               message |-> Pending("Hotel search")]))
      [] name = "search_restaurants" ->
            Ret(Response(200, [status |-> "success", restaurants |-> <<>>,
                               message |-> Pending("Restaurant search")]))
      [] name = "router.health_check" -> routes_health_check
      [] name = "app.health_check" -> health_check(s, w)
      [] name = "root" -> root(s)
      [] name = "metrics" -> Ret(Response(200, [text |-> "metrics"]))
      [] name = "openapi" -> Ret(Response(200, [openapi |-> "3.1.0"]))
      [] name = "swagger_ui_html" -> Ret(Response(200, [text |-> "html"]))

\* FastAPI validates the declared parameters before it calls the endpoint:
\* a Dict body parameter needs a JSON object, a required query parameter
\* must be present.
Handle(route, req, s, w) ==
    IF route.body /\ req.body.kind # "object"
    THEN Ret(Response(422, [detail |-> "body"]))
    ELSE IF route.query /\ req.query = "absent"
    THEN Ret(Response(422, [detail |-> "query"]))
    ELSE Endpoint(route.endpoint, req, s, w)

\* main.not_found_handler
not_found_handler(req) ==
    Response(404, [error |-> "Not found", path |-> req.path])

\* The router: the first route whose path and method match handles the
\* request; a path that matches only with another method gives 405; no
\* match gives 404.
RouterResponse(routes, req, s, w) ==
    IF FullMatches(routes, req) # {}
    THEN Handle(routes[First(FullMatches(routes, req))], req, s, w)
    ELSE IF PartialMatches(routes, req) # {}
    THEN Ret(Response(405, [detail |-> "Method Not Allowed"]))
    ELSE Ret(not_found_handler(req))

\* main.logging_middleware: the warehouse logging calls swallow their own
\* failures; an exception out of call_next becomes a 500 response.
logging_middleware(s, w, inner) ==
    IF log_analytics_event([IdleEnv EXCEPT !.warehouse = w]).kind = "raise"
    THEN Response(500, [error |-> "Internal server error", message |-> "log"])
    ELSE IF inner.kind = "raise"
    THEN Response(500, [error |-> "Internal server error",
                        message |-> IF s.debug THEN inner.exc
                                    ELSE "An error occurred"])
    ELSE inner.value

\* main.rate_limit_middleware: call_next on both branches.
rate_limit_middleware(s, inner) ==
    IF ~s.rate_limit_enabled THEN inner ELSE inner

HttpIdle ==
    /\ settings = DefaultSettings
    /\ warehouse = "ok"
    /\ http_request = NoRequest
    /\ http_response = NoResponse

HttpInit ==
    /\ settings \in Settings
    /\ warehouse = "ok"
    /\ http_request = NoRequest
    /\ http_response = NoResponse

\* A request arrives; the warehouse is reachable or not while it is handled.
HttpReceive ==
    /\ http_request = NoRequest
    /\ http_request' \in Requests
    /\ warehouse' \in {"ok", "fail"}
    /\ http_response' = NoResponse
    /\ UNCHANGED settings
    /\ UNCHANGED not_http_vars

\* The request goes through the middleware to the router and back.
HttpRespond ==
    /\ http_request # NoRequest
    /\ http_response = NoResponse
    /\ http_response' =
          rate_limit_middleware(settings,
              logging_middleware(settings, warehouse,
                  RouterResponse(Routes(settings), http_request, settings, warehouse)))
    /\ UNCHANGED <<settings, warehouse, http_request>>
    /\ UNCHANGED not_http_vars

\* The response has been sent; the app keeps nothing of the request.
HttpDone ==
    /\ http_response # NoResponse
    /\ http_request' = NoRequest
    /\ http_response' = NoResponse
    /\ UNCHANGED <<settings, warehouse>>
    /\ UNCHANGED not_http_vars

HttpNext == HttpReceive \/ HttpRespond \/ HttpDone

\* A client session on bookings and payments: the requests it sends.
SessionRequests ==
    {r \in Requests :
        /\ r.query = "absent" /\ r.location = "absent"
        /\ \/ /\ r.method = "POST"
              /\ r.body = [kind |-> "object", keys |-> {}, message |-> ""]
              /\ r.path \in {Api(<<"bookings", "create">>),
                             Api(<<"bookings", "b1", "confirm">>),
                             Api(<<"bookings", "b1", "cancel">>),
                             Api(<<"payments", "process">>),
                             Api(<<"payments", "refund">>)}
           \/ /\ r.method = "GET"
              /\ r.body = NoBody
              /\ r.path \in {Api(<<"bookings", "b1", "status">>),
                             Api(<<"payments", "verify", "s1">>)}}

SessionIdle == earlier = {}

SessionInit ==
    /\ HttpIdle
    /\ earlier = {}

\* The client sends the next request of its session.
SessionReceive ==
    /\ http_request = NoRequest
    /\ http_request' \in SessionRequests
    /\ warehouse' \in {"ok", "fail"}
    /\ http_response' = NoResponse
    /\ UNCHANGED <<settings, earlier>>
    /\ UNCHANGED not_session_vars

\* The client has the answer and remembers the exchange.
SessionDone ==
    /\ http_response # NoResponse
    /\ earlier' = earlier \cup {[request |-> http_request, response |-> http_response]}
    /\ http_request' = NoRequest
    /\ http_response' = NoResponse
    /\ UNCHANGED <<settings, warehouse>>
    /\ UNCHANGED not_session_vars

SessionNext == SessionReceive \/ HttpRespond \/ SessionDone

----------------------------------------------------------------------------
(* validators.validate_dates                                                *)

\* Calendar dates as day numbers; date comparison is the order of the days.
Dates == 1..MaxDate

\* validate_dates with > in place of >=.
validate_dates_same_day(s, e) ==
    IF s > e THEN Exc("ValueError: End date must be after start date")
    ELSE Ret("True")

\* validators.validate_dates
validate_dates(s, e) ==
    IF s >= e THEN Exc("ValueError: End date must be after start date")
    ELSE Ret("True")

DatesIdle ==
    /\ start_date = 1
    /\ end_date = 1
    /\ dates_result = Ret("")

DatesInit ==
    /\ start_date \in Dates
    /\ end_date \in Dates
    /\ dates_result = Exc("")

ValidateDates ==
    /\ dates_result = Exc("")
    /\ dates_result' = validate_dates(start_date, end_date)
    /\ UNCHANGED <<start_date, end_date>>
    /\ UNCHANGED not_dates_vars

DatesNext == ValidateDates

----------------------------------------------------------------------------
(* AIService._update_conversation_history: the in-memory history           *)
(* The append and the trim run without an await between them, so however   *)
(* chat_assistance coroutines interleave, the in-memory history changes by *)
(* one such step per exchange.  An entry is named by its number among the  *)
(* exchanges of its conversation.                                          *)

\* A variant of the trim that keeps the first 20 entries ([:20]).
_update_conversation_history_keep_first(history, conversation_id, entry) ==
    [history EXCEPT ![conversation_id] =
        IF Len(@) + 1 > HistoryLimit THEN SubSeq(Append(@, entry), 1, HistoryLimit)
        ELSE Append(@, entry)]

\* The in-memory part of _update_conversation_history: create the list if
\* the conversation has none, append the entry, keep the last 20.
_update_conversation_history(history, conversation_id, entry) ==
    [history EXCEPT ![conversation_id] = LastN(Append(@, entry), HistoryLimit)]

HistoryIdle == appended = NoHistories

HistoryInit == ChatIdle /\ HistoryIdle

\* A chat exchange of some conversation reaches its history update.
UpdateConversationHistory ==
    \E c \in Conversations :
        /\ Len(appended[c]) < MaxExchanges
        /\ \E entry \in {Len(appended[c]) + 1} :
              /\ conversation_history' =
                     _update_conversation_history(conversation_history, c, entry)
              /\ appended' = [appended EXCEPT ![c] = Append(@, entry)]
        /\ UNCHANGED not_history_vars

HistoryNext == UpdateConversationHistory

----------------------------------------------------------------------------
(* BookingService: create_booking over a list of items, and the calls that *)
(* look a booking up.  Each call runs to its end before the next starts.   *)

\* models/booking.py BookingType, and the types _create_emt_booking
\* dispatches to a _book_* helper.
BookingType == {"flight", "hotel", "transport", "activity", "package"}
EmtTypes == {"flight", "hotel", "transport", "activity"}

\* An entry of booking_request.booking_items: its 'type' (or "absent"),
\* whether it has 'name' and 'price', and its 'date' (an ISO string,
\* "absent", or "malformed").
WellFormed(type) == [type |-> type, name |-> TRUE, date |-> "iso", price |-> TRUE]
ItemData ==
    {WellFormed("flight"), WellFormed("package"), WellFormed("cruise"),
     [WellFormed("flight") EXCEPT !.name = FALSE],
     [WellFormed("hotel") EXCEPT !.date = "absent"],
     [WellFormed("activity") EXCEPT !.price = FALSE]}
BookingRequests == SeqsUpTo(ItemData, MaxItems)

BookingIds == 1..MaxBookings

\* Return values of the booking calls are records.
NoBooking == [found |-> FALSE, booking_id |-> 0, status |-> "", codes |-> {}]

\* BookingService._save_booking and _update_booking: `pass`.
_save_booking(db, booking) == db
_update_booking(db, booking) == db

\* A variant of _get_booking that finds the bookings create_booking returned.
_get_booking_stored(db, booking_id) ==
    IF booking_id \in returned
    THEN [found |-> TRUE, booking_id |-> booking_id, status |-> "pending",
          codes |-> {m \in emt_made : m.booking = booking_id}]
    ELSE NoBooking

\* BookingService._get_booking: `return None`.
_get_booking(db, booking_id) == NoBooking

\* BookingService._create_emt_booking for one item: a known type goes to its
\* _book_* helper, any other gets a confirmation code at once.
BookingService_create_emt_booking(item_data, e) ==
    IF item_data.type \in EmtTypes THEN _create_emt_booking(e)
    ELSE Ret("confirmed")

\* The BookingItem(...) construction in create_booking: BookingType(type),
\* item_data['name'], datetime.fromisoformat(item_data['date']),
\* item_data['price'], evaluated in this order.
BookingItem(item_data) ==
    IF item_data.type = "absent" THEN Exc("KeyError")
    ELSE IF item_data.type \notin BookingType THEN Exc("ValueError")
    ELSE IF ~item_data.name THEN Exc("KeyError")
    ELSE IF item_data.date = "absent" THEN Exc("KeyError")
    ELSE IF item_data.date = "malformed" THEN Exc("ValueError")
    ELSE IF ~item_data.price THEN Exc("KeyError")
    ELSE Ret("item")

\* A variant of the loop that builds the BookingItem before it calls EMT.
RECURSIVE ProcessItemsValidateFirst(_, _, _)
ProcessItemsValidateFirst(items, e, k) ==
    IF k > Len(items) THEN [exc |-> "", made |-> {}]
    ELSE IF BookingItem(items[k]).kind = "raise"
    THEN [exc |-> BookingItem(items[k]).exc, made |-> {}]
    ELSE LET emt_booking == BookingService_create_emt_booking(items[k], e)
             rest == ProcessItemsValidateFirst(items, e, k + 1)
         IN  [exc |-> rest.exc,
              made |-> (IF emt_booking.value = "confirmed" THEN {k} ELSE {})
                         \cup rest.made]

\* The loop of create_booking from item k on: the EMT booking of the item is
\* made, then its BookingItem is built; an exception ends the loop.  made
\* is the set of items whose EMT booking was confirmed.
RECURSIVE ProcessItems(_, _, _)
ProcessItems(items, e, k) ==
    IF k > Len(items) THEN [exc |-> "", made |-> {}]
    ELSE LET emt_booking == BookingService_create_emt_booking(items[k], e)
             made == IF emt_booking.value = "confirmed" THEN {k} ELSE {}
         IN  IF BookingItem(items[k]).kind = "raise"
             THEN [exc |-> BookingItem(items[k]).exc, made |-> made]
             ELSE LET rest == ProcessItems(items, e, k + 1)
                  IN  [exc |-> rest.exc, made |-> made \cup rest.made]

\* BookingService.create_booking: its outcome, the EMT bookings it made and
\* the database it leaves.  The except clause prints and re-raises.
CreateOutcome(booking_id, items, db, processed) ==
    IF processed.exc # ""
    THEN [outcome |-> Exc(processed.exc), made |-> processed.made, database |-> db]
    ELSE [outcome |-> Ret([booking_id |-> booking_id, status |-> "pending",
                           items |-> Len(items), codes |-> processed.made]),
          made |-> processed.made,
          database |-> _save_booking(db, booking_id)]
BookingService_create_booking(booking_id, items, e, db) ==
    CreateOutcome(booking_id, items, db, ProcessItems(items, e, 1))

\* BookingService.confirm_booking
ConfirmOutcome(booking, db) ==
    IF ~booking.found
    THEN [outcome |-> Exc("ValueError"), database |-> db]
    ELSE [outcome |-> Ret([booking_id |-> booking.booking_id, status |-> "confirmed"]),
          database |-> _update_booking(db, booking.booking_id)]
confirm_booking(booking_id, db) == ConfirmOutcome(_get_booking(db, booking_id), db)

\* BookingService._cancel_emt_booking: a mock that always cancels.
_cancel_emt_booking(code) == code

\* BookingService.cancel_booking
CancelOutcome(booking, db) ==
    IF ~booking.found
    THEN [outcome |-> Exc("ValueError"), cancelled |-> {}, database |-> db]
    ELSE IF booking.status \in {"cancelled", "refunded"}
    THEN [outcome |-> Ret([status |-> "already_cancelled"]), cancelled |-> {},
          database |-> db]
    ELSE [outcome |-> Ret([booking_id |-> booking.booking_id, status |-> "cancelled"]),
          cancelled |-> {_cancel_emt_booking(code) : code \in booking.codes},
          database |-> _update_booking(db, booking.booking_id)]
cancel_booking(booking_id, db) == CancelOutcome(_get_booking(db, booking_id), db)

\* BookingService.get_booking_status
StatusOutcome(booking) ==
    IF ~booking.found THEN Ret([status |-> "not_found"])
    ELSE Ret([booking_id |-> booking.booking_id, status |-> booking.status])
get_booking_status(booking_id, db) == StatusOutcome(_get_booking(db, booking_id))

NoBookingOp == [op |-> "", booking_id |-> 0, items |-> <<>>, emt |-> "ok"]

BookingIdle ==
    /\ database = {}
    /\ emt_made = {}
    /\ emt_cancelled = {}
    /\ returned = {}
    /\ uuids = 0
    /\ booking_op = NoBookingOp
    /\ booking_result = Ret([status |-> ""])

BookingInit == BookingIdle

\* create_booking is called with a list of items; EMT answers or fails.
CreateBooking ==
    /\ uuids < MaxBookings
    /\ \E items \in BookingRequests, emt \in {"ok", "fail"} :
       \E r \in {BookingService_create_booking(uuids + 1, items, [emt |-> emt],
                                               database)} :
           /\ booking_op' = [op |-> "create_booking", booking_id |-> uuids + 1,
                             items |-> items, emt |-> emt]
           /\ booking_result' = r.outcome
           /\ emt_made' = emt_made \cup
                            {[booking |-> uuids + 1, item |-> k] : k \in r.made}
           /\ database' = r.database
           /\ returned' = IF r.outcome.kind = "return"
                          THEN returned \cup {uuids + 1} ELSE returned
    /\ uuids' = uuids + 1
    /\ UNCHANGED emt_cancelled
    /\ UNCHANGED not_booking_vars

\* confirm_booking is called for some booking id.
ConfirmBooking ==
    /\ \E booking_id \in BookingIds :
       \E r \in {confirm_booking(booking_id, database)} :
           /\ booking_op' = [NoBookingOp EXCEPT !.op = "confirm_booking",
                                                !.booking_id = booking_id]
           /\ booking_result' = r.outcome
           /\ database' = r.database
    /\ UNCHANGED <<emt_made, emt_cancelled, returned, uuids>>
    /\ UNCHANGED not_booking_vars

\* cancel_booking is called for some booking id.
CancelBooking ==
    /\ \E booking_id \in BookingIds :
       \E r \in {cancel_booking(booking_id, database)} :
           /\ booking_op' = [NoBookingOp EXCEPT !.op = "cancel_booking",
                                                !.booking_id = booking_id]
           /\ booking_result' = r.outcome
           /\ emt_cancelled' = emt_cancelled \cup r.cancelled
           /\ database' = r.database
    /\ UNCHANGED <<emt_made, returned, uuids>>
    /\ UNCHANGED not_booking_vars

\* get_booking_status is called for some booking id.
GetBookingStatus ==
    /\ \E booking_id \in BookingIds :
           /\ booking_op' = [NoBookingOp EXCEPT !.op = "get_booking_status",
                                                !.booking_id = booking_id]
           /\ booking_result' = get_booking_status(booking_id, database)
    /\ UNCHANGED <<database, emt_made, emt_cancelled, returned, uuids>>
    /\ UNCHANGED not_booking_vars

BookingNext == CreateBooking \/ ConfirmBooking \/ CancelBooking \/ GetBookingStatus

----------------------------------------------------------------------------
(* BookingService._calculate_refund                                        *)
(* An item's date is the number of whole hours from now until it, and      *)
(* whether the datetime carries a UTC offset.  Amounts are whole currency  *)
(* units; a refund is given in tenths of a unit, so that 0.9 * total and   *)
(* 0.5 * total are exact.                                                  *)

HoursUntil == 0..MaxHours
ItemDates == [hours : HoursUntil, tz : {"naive", "aware"}]
Amounts == (0 - 1)..MaxAmount

\* Bookings with no item, one item, or a second item early or late.
RefundBookings ==
    [booking_items : {<<>>} \cup {<<d>> : d \in ItemDates}
                        \cup {<<d, [hours |-> h, tz |-> "naive"]>> :
                                 d \in ItemDates, h \in {0, MaxHours}},
     total_amount : Amounts]

Refund(tenths) == [kind |-> "return", exc |-> "", tenths |-> tenths]
RefundRaise(e) == [kind |-> "raise", exc |-> e, tenths |-> 0]
NoRefund == [kind |-> "none", exc |-> "", tenths |-> 0]

\* A variant of the policy whose tiers start at 48 and 24 hours exactly.
_calculate_refund_inclusive(booking) ==
    IF Len(booking.booking_items) = 0 THEN RefundRaise("IndexError")
    ELSE IF booking.booking_items[1].tz = "aware" THEN RefundRaise("TypeError")
    ELSE IF booking.booking_items[1].hours >= 48
    THEN Refund(booking.total_amount * 9)
    ELSE IF booking.booking_items[1].hours >= 24
    THEN Refund(booking.total_amount * 5)
    ELSE Refund(0)

\* BookingService._calculate_refund: booking_items[0] of an empty list is an
\* IndexError, an offset-aware date minus datetime.now() a TypeError.
_calculate_refund(booking) ==
    IF Len(booking.booking_items) = 0 THEN RefundRaise("IndexError")
    ELSE IF booking.booking_items[1].tz = "aware" THEN RefundRaise("TypeError")
    ELSE IF booking.booking_items[1].hours > 48
    THEN Refund(booking.total_amount * 9)
    ELSE IF booking.booking_items[1].hours > 24
    THEN Refund(booking.total_amount * 5)
    ELSE Refund(0)

RefundIdle ==
    /\ refund_booking = [booking_items |-> <<>>, total_amount |-> 0]
    /\ refund_result = Refund(0)

RefundInit ==
    /\ refund_booking \in RefundBookings
    /\ refund_result = NoRefund

\* cancel_booking computes the refund of the booking it cancels.
CalculateRefund ==
    /\ refund_result = NoRefund
    /\ refund_result' = _calculate_refund(refund_booking)
    /\ UNCHANGED refund_booking
    /\ UNCHANGED not_refund_vars

RefundNext == CalculateRefund

----------------------------------------------------------------------------
(* Specifications: one per part of the program, the rest held idle         *)

InitRoute ==
    RouteInit /\ ParseIdle /\ OpsIdle /\ ChatIdle /\ HttpIdle /\ SessionIdle /\ DatesIdle
    /\ HistoryIdle /\ BookingIdle /\ RefundIdle
SpecRoute == InitRoute /\ [][RouteNext]_vars

InitParse ==
    ParseInit /\ RouteIdle /\ OpsIdle /\ ChatIdle /\ HttpIdle /\ SessionIdle /\ DatesIdle
    /\ HistoryIdle /\ BookingIdle /\ RefundIdle
SpecParse == InitParse /\ [][ParseNext]_vars

InitOps ==
    OpsIdle /\ RouteIdle /\ ParseIdle /\ ChatIdle /\ HttpIdle /\ SessionIdle /\ DatesIdle
    /\ HistoryIdle /\ BookingIdle /\ RefundIdle
SpecOps == InitOps /\ [][OpsNext]_vars

InitChat ==
    ChatInit /\ RouteIdle /\ ParseIdle /\ OpsIdle /\ HttpIdle /\ SessionIdle /\ DatesIdle
    /\ HistoryIdle /\ BookingIdle /\ RefundIdle
SpecChat == InitChat /\ [][ChatNext]_vars
SpecChatUsers == InitChat /\ [][ChatUsersNext]_vars

InitHttp ==
    HttpInit /\ RouteIdle /\ ParseIdle /\ OpsIdle /\ ChatIdle /\ SessionIdle /\ DatesIdle
    /\ HistoryIdle /\ BookingIdle /\ RefundIdle
SpecHttp == InitHttp /\ [][HttpNext]_vars

InitSession ==
    SessionInit /\ RouteIdle /\ ParseIdle /\ OpsIdle /\ ChatIdle /\ DatesIdle
    /\ HistoryIdle /\ BookingIdle /\ RefundIdle
SpecSession == InitSession /\ [][SessionNext]_vars

InitDates ==
    DatesInit /\ RouteIdle /\ ParseIdle /\ OpsIdle /\ ChatIdle /\ HttpIdle /\ SessionIdle
    /\ HistoryIdle /\ BookingIdle /\ RefundIdle
SpecDates == InitDates /\ [][DatesNext]_vars

InitHistory ==
    HistoryInit /\ RouteIdle /\ ParseIdle /\ OpsIdle /\ HttpIdle /\ SessionIdle
    /\ DatesIdle /\ BookingIdle /\ RefundIdle
SpecHistory == InitHistory /\ [][HistoryNext]_vars

InitBooking ==
    BookingInit /\ RouteIdle /\ ParseIdle /\ OpsIdle /\ ChatIdle /\ HttpIdle
    /\ SessionIdle /\ DatesIdle /\ HistoryIdle /\ RefundIdle
SpecBooking == InitBooking /\ [][BookingNext]_vars

InitRefund ==
    RefundInit /\ RouteIdle /\ ParseIdle /\ OpsIdle /\ ChatIdle /\ HttpIdle
    /\ SessionIdle /\ DatesIdle /\ HistoryIdle /\ BookingIdle
SpecRefund == InitRefund /\ [][RefundNext]_vars

----------------------------------------------------------------------------
(* Claims *)

\* C1: _get_optimal_route returns its input list in the original order,
\* whatever the length, the addresses and the outcome of the distance-matrix
\* call.
C1_RouteOrderUnchanged == route_pc = "done" => optimal_route = activities

\* The nearest-neighbour loop ran over activities at three different
\* addresses with real distances from the maps API.
C1_Witness ==
    /\ route_pc = "done"
    /\ Len(activities) = 3
    /\ gmaps = "ok"
    /\ activities[1].location = "X"
    /\ activities[2].location = "Y"
    /\ activities[3].location = "Z"

\* The response was a JSON object whose total cost is a number above the
\* request's budget: the case in which the validator adjusts.
ExceedsBudget ==
    /\ JsonLoads(ExtractJson(response_text)) = "dict"
    /\ IsNum(FillRequired(response_text.data).total_estimated_cost)
    /\ NumGt(FillRequired(response_text.data).total_estimated_cost, trip_request.budget)

\* new is old multiplied by budget / total_estimated_cost.
ScaledFrom(new, old) ==
    IsNum(old) =>
        /\ IsNum(new)
        /\ NumEq(new, Scale(old, trip_request.budget,
                            FillRequired(response_text.data).total_estimated_cost))

\* C2: when the parsed total_estimated_cost exceeds the budget, every
\* numeric cost field of the returned itinerary is the original one times
\* budget / total_estimated_cost: the cost_breakdown entries, each
\* day_total_cost, each activity's cost_per_person and total_cost, and each
\* meal, accommodation and transport cost.
C2_EveryCostScaled ==
    (parse_result.kind = "return" /\ ExceedsBudget) =>
        LET orig == FillRequired(response_text.data)
            res == parse_result.itinerary
        IN  /\ \A c \in DOMAIN orig.cost_breakdown :
                  ScaledFrom(res.cost_breakdown[c], orig.cost_breakdown[c])
            /\ \A i \in 1..Len(orig.daily_itineraries) :
                  LET od == orig.daily_itineraries[i]
                      rd == res.daily_itineraries[i]
                  IN  /\ ScaledFrom(rd.day_total_cost, od.day_total_cost)
                      /\ \A k \in 1..Len(od.activities) :
                            /\ ScaledFrom(rd.activities[k].cost_per_person,
                                          od.activities[k].cost_per_person)
                            /\ ScaledFrom(rd.activities[k].total_cost,
                                          od.activities[k].total_cost)
                      /\ ScaledFrom(rd.meal_cost, od.meal_cost)
                      /\ ScaledFrom(rd.accommodation_cost, od.accommodation_cost)
                      /\ ScaledFrom(rd.transport_cost, od.transport_cost)

\* C3: the itinerary _parse_and_validate_response returns has a
\* total_estimated_cost that is at most the budget, for every response text
\* and budget.
C3_ReturnedWithinBudget ==
    parse_result.kind = "return" =>
        /\ IsNum(parse_result.itinerary.total_estimated_cost)
        /\ ~NumGt(parse_result.itinerary.total_estimated_cost, trip_request.budget)

\* The external service the finished operation depends on failed during its
\* last attempt.
ExternalFailed ==
    CASE ExternalOf(call.op) = "model" -> env.model = "fail"
      [] ExternalOf(call.op) = "maps" -> gmaps = "fail"
      [] ExternalOf(call.op) = "stripe" -> env.stripe = "fail"
      [] ExternalOf(call.op) = "emt" -> env.emt = "fail"
      [] OTHER -> env.warehouse = "fail"

\* C4: generate_itinerary is the only operation that is attempted again
\* after a failed attempt: no maps, payment, booking or warehouse operation
\* ever starts a second attempt.
C4_OnlyGenerateReattempted ==
    ((call.status = "running" /\ call.attempt >= 1) \/ call.attempt >= 2)
        => call.op = "generate_itinerary"

\* generate_itinerary was attempted three times and gave up.
C4_Witness ==
    /\ call.op = "generate_itinerary"
    /\ call.status = "done"
    /\ call.attempt = StopAfterAttempt
    /\ op_result = Exc("RetryError")

\* C5 (as stated): no operation whose external service failed propagates an
\* exception to its caller; each returns a default or fallback value.
C5_NonePropagates ==
    (call.status = "done" /\ ExternalFailed) => op_result.kind = "return"

\* The operations whose except clause logs and re-raises.
Reraising == {"create_payment_session"} \cup WarehouseDataOps

\* The value an operation returns when its external service failed.
DefaultOf(op) ==
    CASE op \in AiFixedOps -> AiDefault(op)
      [] op \in MapsDefaultOps -> MapsDefault(op)
      [] op = "verify_payment" -> "unknown"
      [] op = "process_refund" -> "failed"
      [] op = "create_booking" -> "booking_without_code"
      [] op \in {"log_analytics_event", "log_application_log"} -> "None"

\* C5 (amended): when its external service fails, create_payment_session and
\* the warehouse data operations raise; generate_itinerary returns the cached
\* itinerary or the fallback itinerary, or raises RetryError after three
\* attempts when the fallback cannot be built from the request; card
\* payments return a 'failed' response; get_place_details returns the cached
\* place or {}; every other operation returns its fixed default.
C5_Amended ==
    (call.status = "done" /\ ExternalFailed) =>
        CASE call.op \in Reraising ->
                op_result.kind = "raise" /\ op_result.exc # "RetryError"
          [] call.op = "generate_itinerary" ->
                \/ /\ op_result.kind = "return"
                   /\ op_result.value =
                        IF _get_cached_response(env).hit
                        THEN _get_cached_response(env).itinerary
                        ELSE _create_fallback_itinerary(trip_request).itinerary
                \/ /\ op_result = Exc("RetryError")
                   /\ call.attempt = StopAfterAttempt
                   /\ _create_fallback_itinerary(trip_request).kind = "raise"
          [] call.op = "process_payment" ->
                /\ op_result.kind = "return"
                /\ call.arg.payment_method \in {"credit_card", "debit_card"}
                      => op_result.value.status = "failed"
          [] call.op = "get_place_details" ->
                /\ op_result.kind = "return"
                /\ op_result.value = IF _get_from_cache(env) # "none"
                                     THEN _get_from_cache(env) ELSE "{}"
          [] OTHER -> op_result = Ret(DefaultOf(call.op))

\* create_payment_session finished with the gateway's exception.
C5_Witness ==
    /\ call.op = "create_payment_session"
    /\ call.status = "done"
    /\ env.stripe = "fail"
    /\ op_result = Exc("StripeError")

\* C7: for each payment method, process_payment returns a PaymentResponse
\* whose status is 'success' exactly when the method's processor reported
\* 'succeeded' and 'failed' otherwise, with the request's amount, currency
\* and payment method; it never raises.
C7_PaymentStatusOnly ==
    (call.status = "done" /\ call.op = "process_payment") =>
        /\ op_result.kind = "return"
        /\ Processor(call.arg, env).kind = "return"
        /\ op_result.value.status =
              IF Processor(call.arg, env).value.status = "succeeded"
              THEN "success" ELSE "failed"
        /\ op_result.value.status = "success"
              <=> (call.arg.payment_method \in {"upi", "net_banking", "wallet"}
                      \/ env.stripe = "ok")
        /\ op_result.value.amount = call.arg.amount
        /\ op_result.value.currency = call.arg.currency
        /\ op_result.value.payment_method = call.arg.payment_method

\* A card payment whose Stripe call failed came back as a 'failed' response.
C7_Witness ==
    /\ call.status = "done"
    /\ call.op = "process_payment"
    /\ call.arg.payment_method = "credit_card"
    /\ env.stripe = "fail"
    /\ op_result.kind = "return"
    /\ op_result.value.status = "failed"

\* A call as a serial run sees it: the history _get_conversation_history
\* gives it when memory is mem and Redis holds red.
SerialHistory(mem, red, c) ==
    IF mem[c.conversation_id] # <<>> THEN mem[c.conversation_id]
    ELSE IF redis_client /\ c.user_id # "none"
    THEN red[<<c.user_id, c.conversation_id>>]
    ELSE <<>>

\* Memory and Redis after a call that ran alone from mem and red.
SerialAfter(mem, red, c) ==
    LET updated == [mem EXCEPT ![c.conversation_id] =
                        LastN(Append(@, c.message), HistoryLimit)]
    IN  [mem |-> updated,
         red |-> IF redis_client /\ c.user_id # "none"
                 THEN [red EXCEPT ![<<c.user_id, c.conversation_id>>] =
                           updated[c.conversation_id]]
                 ELSE red]

\* The two finished calls look as if first had run to its end on the fresh
\* service and second after it.
AsIfSerial(first, second) ==
    LET after1 == SerialAfter(NoHistories, redis_at_start, first)
        after2 == SerialAfter(after1.mem, after1.red, second)
    IN  /\ first.prompt_history =
              LastN(SerialHistory(NoHistories, redis_at_start, first), PromptWindow)
        /\ second.prompt_history =
              LastN(SerialHistory(after1.mem, after1.red, second), PromptWindow)
        /\ conversation_history = after2.mem
        /\ redis_store = after2.red

\* The first two calls on a fresh service were on the same conversation and
\* both finished without any failure of the model or of Redis.
TwoCallsFinished ==
    /\ calls = 2
    /\ chat[1].pc = "done" /\ chat[2].pc = "done"
    /\ chat[1].message # 0 /\ chat[2].message # 0
    /\ chat[1].conversation_id = chat[2].conversation_id
    /\ ~chat[1].failed /\ ~chat[2].failed

\* C6: two concurrent chat_assistance calls on the same conversation,
\* interleaved at their await points, give the model the histories and leave
\* the stored history (in memory and in Redis) that running them one after
\* the other in some order would.
C6_ChatSerializable ==
    TwoCallsFinished => (AsIfSerial(chat[1], chat[2]) \/ AsIfSerial(chat[2], chat[1]))

GetHealth ==
    /\ http_request.method = "GET"
    /\ http_request.path = Api(<<"health">>)
    /\ http_response # NoResponse

C9_RootBody ==
    (http_request.method = "GET" /\ http_request.path = <<>>
        /\ http_response # NoResponse) =>
        /\ http_response.status_code = 200
        /\ http_response.body.message = "Welcome to AI Trip Planner API"
        /\ http_response.body.version = "1.0.0"
        /\ "docs" \in DOMAIN http_response.body

\* The POST stub routes of the claim and the result field of each.
StubResultField ==
    (Api(<<"chat">>) :> "response") @@ (Api(<<"suggestions">>) :> "suggestions")
    @@ (Api(<<"bookings", "create">>) :> "booking_id")
    @@ (Api(<<"payments", "process">>) :> "payment_id")
    @@ (Api(<<"directions">>) :> "directions")
    @@ (Api(<<"hotels", "search">>) :> "hotels")
    @@ (Api(<<"restaurants", "search">>) :> "restaurants")

\* C10: each POST stub route answers any JSON-object body with 200, status
\* 'success' and its result field.
C10_PostStubsSucceed ==
    (/\ http_request.method = "POST"
     /\ http_request.path \in DOMAIN StubResultField
     /\ http_request.body.kind = "object"
     /\ http_response # NoResponse) =>
        /\ http_response.status_code = 200
        /\ http_response.body.status = "success"
        /\ StubResultField[http_request.path] \in DOMAIN http_response.body

\* The chat route answered a JSON object that has no message key.
C10_Witness ==
    /\ http_request.method = "POST"
    /\ http_request.path = Api(<<"chat">>)
    /\ http_request.body.kind = "object"
    /\ http_request.body.keys = {}
    /\ http_response.status_code = 200
    /\ "response" \in DOMAIN http_response.body

\* The request was answered and its path has the given shape: n segments,
\* segment i being seg.
Answered(m, n, i, seg) ==
    /\ http_response # NoResponse
    /\ http_request.method = m
    /\ Len(http_request.path) = n
    /\ http_request.path[i] = seg

BodyGiven == http_request.body.kind = "object"

C13_ValidateDates ==
    dates_result # Exc("") =>
        /\ dates_result = Ret("True") <=> start_date < end_date
        /\ start_date >= end_date =>
              dates_result = Exc("ValueError: End date must be after start date")

\* A one-day trip (start_date = end_date) was rejected.
C13_Witness ==
    /\ start_date = end_date
    /\ dates_result = Exc("ValueError: End date must be after start date")

\* C14: a finished generate_itinerary call has returned an itinerary,
\* whatever the trip request (also one without budget or with duration_days
\* 0) and whichever of the model, the cache and the warehouse failed.
C14_GenerateNeverRaises ==
    (call.status = "done" /\ call.op = "generate_itinerary") =>
        op_result.kind = "return"

\* C15: a generate_itinerary call makes at most 3 attempts; an attempt
\* starts after an earlier one only when that one raised out of the function
\* body, and an attempt that returns an itinerary (cached, generated or
\* fallback) ends the call with that itinerary.
C15_AtMostThreeAttempts ==
    [][(call.op = "generate_itinerary" /\ call'.attempt > call.attempt) =>
          /\ call'.attempt <= StopAfterAttempt
          /\ call.attempt >= 1 => op_result.kind = "raise"
          /\ generate_itinerary(env, trip_request, response_text).outcome.kind = "return" =>
                /\ call'.status = "done"
                /\ op_result' = generate_itinerary(env, trip_request, response_text).outcome
          /\ call'.status = "running" => op_result'.kind = "raise"]_vars

\* The first two attempts raised and the third returned an itinerary, which
\* ended the call.
C15_Witness ==
    /\ call.op = "generate_itinerary"
    /\ call.status = "done"
    /\ call.attempt = StopAfterAttempt
    /\ op_result.kind = "return"

\* C16: the itinerary _parse_and_validate_response returns has the three
\* required top-level keys daily_itineraries, cost_breakdown and
\* total_estimated_cost, whatever the response text.
C16_RequiredKeysPresent ==
    parse_result.kind = "return" =>
        RequiredFields \subseteq parse_result.itinerary.keys

\* Redis failed during the running attempt: the get raised, or the get
\* missed and every set raises.
CacheFailed ==
    \/ GetFails(env)
    \/ /\ env.redis = "set_fails"
       /\ call.op = "generate_itinerary" => ~itinerary_cache.hit
       /\ call.op = "get_place_details" => place_cache = "none"

CachingDisabled == [env EXCEPT !.redis = "disabled"]

\* C17: an attempt of generate_itinerary or get_place_details during which
\* Redis fails on get or on set has the outcome of the same attempt with
\* caching disabled; in particular no cache error reaches the caller.
C17_CachePassthrough ==
    (/\ call.status = "running"
     /\ call.op \in {"generate_itinerary", "get_place_details"}
     /\ CacheFailed) =>
        /\ Attempt(call.op, env, call.arg).outcome
              = Attempt(call.op, CachingDisabled, call.arg).outcome
        /\ Attempt(call.op, env, call.arg).outcome.exc
              \in {"", "KeyError", "ZeroDivisionError", "TypeError"}

\* The model answered with an itinerary while the Redis get failed and a
\* cached itinerary existed: the generated one is what the attempt returns.
C17_Witness ==
    /\ call.status = "running"
    /\ call.op = "generate_itinerary"
    /\ GetFails(env)
    /\ itinerary_cache.hit
    /\ env.model = "ok"
    /\ Attempt(call.op, env, call.arg).outcome.kind = "return"
    /\ ~Attempt(call.op, env, call.arg).outcome.value.fallback_mode

\* C18: each conversation's in-memory history holds at most 20 entries, and
\* they are the most recent of the entries appended to it, in the order in
\* which they were appended.
C18_HistoryLastTwenty ==
    \A c \in Conversations :
        LET held == conversation_history[c]
            dropped == Len(appended[c]) - Len(held)
        IN  /\ Len(held) <= HistoryLimit
            /\ Len(held) = IF Len(appended[c]) < HistoryLimit
                           THEN Len(appended[c]) ELSE HistoryLimit
            /\ \A i \in 1..Len(held) : held[i] = appended[c][dropped + i]

\* More than 20 exchanges were appended to c1: the oldest was dropped.
C18_Witness ==
    /\ Len(appended["c1"]) > HistoryLimit
    /\ Len(conversation_history["c1"]) = HistoryLimit
    /\ conversation_history["c1"][1] = 2

\* C19: once create_booking has returned a booking, get_booking_status for
\* its booking_id returns {'status': 'not_found'} and confirm_booking and
\* cancel_booking for it raise ValueError, whatever was called in between.
C19_BookingNeverFound ==
    booking_op.booking_id \in returned =>
        /\ booking_op.op = "get_booking_status" =>
              /\ booking_result.kind = "return"
              /\ booking_result.value = [status |-> "not_found"]
        /\ booking_op.op \in {"confirm_booking", "cancel_booking"} =>
              /\ booking_result.kind = "raise"
              /\ booking_result.exc = "ValueError"

\* Two bookings were returned and the confirmation of the first was refused.
C19_Witness ==
    /\ returned = {1, 2}
    /\ booking_op.op = "confirm_booking"
    /\ booking_op.booking_id = 1
    /\ booking_result.kind = "raise"

\* An item create_booking cannot turn into a BookingItem: unknown booking
\* type, or no type, name, date or price.
Defective(item_data) ==
    \/ item_data.type \notin BookingType
    \/ ~item_data.name
    \/ item_data.date # "iso"
    \/ ~item_data.price

FirstDefective(items) ==
    IF \E i \in 1..Len(items) : Defective(items[i])
    THEN CHOOSE i \in 1..Len(items) :
            /\ Defective(items[i])
            /\ \A j \in 1..(i - 1) : ~Defective(items[j])
    ELSE 0

MadeBy(booking_id) == {m.item : m \in {n \in emt_made : n.booking = booking_id}}

\* C20: when item k of a create_booking request is the first that fails, the
\* call raises, no booking is saved or returned, EMT was asked for items
\* 1..k in request order and for no later item, and the EMT bookings made
\* for them are neither cancelled nor part of what the caller gets.
C20_NoPartialFailureHandling ==
    (booking_op.op = "create_booking" /\ FirstDefective(booking_op.items) > 0) =>
        /\ booking_result.kind = "raise"
        /\ booking_result.value = ""
        /\ database = {}
        /\ booking_op.booking_id \notin returned
        /\ MadeBy(booking_op.booking_id) \subseteq 1..FirstDefective(booking_op.items)
        /\ booking_op.emt = "ok" =>
              MadeBy(booking_op.booking_id) = 1..FirstDefective(booking_op.items)
        /\ emt_cancelled = {}

\* The second item of a request was the first defective one: the call raised
\* after EMT had confirmed both items.
C20_Witness ==
    /\ booking_op.op = "create_booking"
    /\ FirstDefective(booking_op.items) = 2
    /\ booking_result.kind = "raise"
    /\ MadeBy(booking_op.booking_id) = {1, 2}

C22_FailedChatLeavesHistory ==
    [][\A p \in Coroutines :
          (chat'[p].result = "apology" /\ chat'[p] # chat[p]) =>
              /\ chat'[p].pc = "done"
              /\ chat'[p].pending = <<>>
              /\ conversation_history' = conversation_history
              /\ redis_store' = redis_store]_vars

\* A call of user u1 on conversation c1 failed at the model while both the
\* memory and Redis held a history of that conversation.
C22_Witness ==
    \E p \in Coroutines :
        /\ chat[p].result = "apology"
        /\ chat[p].user_id = "u1"
        /\ chat[p].conversation_id = "c1"
        /\ conversation_history["c1"] # <<>>
        /\ redis_store[<<"u1", "c1">>] # <<>>

\* C23: the history placed in the prompt of a chat_assistance call made by
\* a user holds only exchanges that user made, whatever calls other users
\* made with the same conversation_id.
C23_PromptOnlyOwnExchanges ==
    \A p \in Coroutines :
        chat[p].user_id # "none" =>
            \A i \in 1..Len(chat[p].prompt_history) :
                senders[chat[p].prompt_history[i]] = chat[p].user_id

\* C24: with Redis enabled and a user_id given, after a successful
\* chat_assistance call the Redis entry of the conversation holds the entries
\* stored before the call (the last 20 of them with the new one) followed by
\* the new exchange.  Stated for the first call after the service started,
\* when the memory is empty and Redis holds what was stored before.
C24_StoredHistoryKept ==
    \A p \in Coroutines :
        (/\ calls = 1
         /\ redis_client
         /\ chat[p].user_id # "none"
         /\ chat[p].pc = "done"
         /\ chat[p].result = "response"
         /\ ~chat[p].failed) =>
            redis_store[<<chat[p].user_id, chat[p].conversation_id>>]
                = LastN(Append(redis_at_start[<<chat[p].user_id,
                                               chat[p].conversation_id>>],
                               chat[p].message), HistoryLimit)

\* C25: an itinerary with fallback_mode true is never written to the
\* itinerary cache.
C25_FallbackNeverCached ==
    itinerary_cache.hit => ~itinerary_cache.itinerary.fallback_mode

====
